---- MODULE Spec2Model ----
(***************************************************************************)
(* Verification model of the free-proxy-list validation pipeline           *)
(* (detectProxies.js and helpers.js).                                      *)
(*                                                                         *)
(* Strings the code transforms character by character (host names, cache   *)
(* keys, canonical proxy strings) are sequences of one-character strings.  *)
(* Strings the code only compares or stores (IP texts, error messages) are *)
(* TLA+ strings.                                                           *)
(*                                                                         *)
(* Node.js runs every callback to completion, so an action is one          *)
(* continuation: the code between two awaits.  The effect of a file read   *)
(* or write on the Probe Cache, and the continuation that follows it, are  *)
(* separate steps, because other workers' I/O may land in between.  A      *)
(* whole-file write is one step.  The clock advances between runs.         *)
(***************************************************************************)
EXTENDS Integers, Sequences, FiniteSets, TLC

\* ------------------------------------------------------------------ bounds
\* How many entries of CandidatePool one run's feeds may contain.
MaxCandidates == 2
\* How many times the clock is advanced (by TickMs).
MaxTicks == 1
\* The longest to-test list of the worker pool specification: more than
\* CONCURRENCY, so that workers come back for a further candidate.
MaxPoolTotal == 52
\* The longest to-test list of the checkpoint specification: more than twice
\* SAVE_INTERVAL, so that a batch writes two periodic checkpoints.
MaxBatchTotal == 401

\* ------------------------------------------------------- program constants
CONCURRENCY == 50
SAVE_INTERVAL == 200
TIMEOUT == 12000
CACHE_VALIDITY_MS == 18 * 60 * 60 * 1000

\* One clock step: the Probe Cache validity, so that an entry is seen at the
\* age 0 and at the age of exactly CACHE_VALIDITY_MS.
TickMs == CACHE_VALIDITY_MS

\* --------------------------------------------------------------- characters
Digits == {"0", "1", "2", "3", "4", "5", "6", "7", "8", "9"}
LowerLetters ==
  {"a", "b", "c", "d", "e", "f", "g", "h", "i", "j", "k", "l", "m",
   "n", "o", "p", "q", "r", "s", "t", "u", "v", "w", "x", "y", "z"}
UpperLetters ==
  {"A", "B", "C", "D", "E", "F", "G", "H", "I", "J", "K", "L", "M",
   "N", "O", "P", "Q", "R", "S", "T", "U", "V", "W", "X", "Y", "Z"}
\* The character class [a-zA-Z0-9].
AlphaNumeric == Digits \cup LowerLetters \cup UpperLetters

\* The value of a missing field (JavaScript undefined).
Undefined == "<undefined>"
\* A message that is missing or empty (both are falsy).
NoMessage == <<>>

\* The protocols, in the order detectProxies processes them.
TypeOrder == <<"socks5", "socks4", "http", "https">>
Types == {TypeOrder[i] : i \in 1..Len(TypeOrder)}

\* The characters of a protocol name.
TypeChars ==
  [socks5 |-> <<"s", "o", "c", "k", "s", "5">>,
   socks4 |-> <<"s", "o", "c", "k", "s", "4">>,
   http   |-> <<"h", "t", "t", "p">>,
   https  |-> <<"h", "t", "t", "p", "s">>]

\* The proxy object normalizeProxyLine builds from a protocol, a host and a
\* port: normalized is `${type}://${host}:${port}`.
ProxyObj(type, host, port) ==
  [type |-> type, host |-> host, port |-> port,
   normalized |-> TypeChars[type] \o <<":", "/", "/">> \o host \o <<":">> \o port]

\* str.replace(/[^a-zA-Z0-9]/g, '_')
ReplaceNonAlnum(s) ==
  [i \in 1..Len(s) |-> IF s[i] \in AlphaNumeric THEN s[i] ELSE "_"]

\* testProxy: the name of a candidate's Probe Cache file.
cacheKey(proxyObj) ==
  ReplaceNonAlnum(TypeChars[proxyObj.type] \o <<"_">> \o proxyObj.host
                  \o <<"_">> \o proxyObj.port)

\* ------------------------------------------------------------------ inputs
\* The first entry of the httpsProxies list of the testProxy command line
\* entry point: https://13.234.24.116:1080.
CliProxy ==
  ProxyObj("https",
           <<"1", "3", ".", "2", "3", "4", ".", "2", "4", ".", "1", "1", "6">>,
           <<"1", "0", "8", "0">>)

\* The candidates the feeds may list, in feed order.  The second differs from
\* the first in one host character; the third is the spec's example 1.
CandidatePool ==
  << CliProxy,
     ProxyObj("https",
              <<"1", "3", "-", "2", "3", "4", ".", "2", "4", ".", "1", "1", "6">>,
              <<"1", "0", "8", "0">>),
     ProxyObj("socks5", <<"1", ".", "2", ".", "3", ".", "4">>,
              <<"1", "0", "8", "0">>) >>

\* Texts for which net.isIP(text) > 0.
ValidIps == {"203.0.113.7", "198.51.100.9"}
isValidIp(ip) == ip \in ValidIps

\* What the probe's curl may print on stdout (trimmed).
Responses == ValidIps \cup {"", "<html>"}

\* ------------------------------------------------------------ message text
UpperSeq ==
  <<"A", "B", "C", "D", "E", "F", "G", "H", "I", "J", "K", "L", "M",
    "N", "O", "P", "Q", "R", "S", "T", "U", "V", "W", "X", "Y", "Z">>
LowerSeq ==
  <<"a", "b", "c", "d", "e", "f", "g", "h", "i", "j", "k", "l", "m",
    "n", "o", "p", "q", "r", "s", "t", "u", "v", "w", "x", "y", "z">>

\* The text operations are functions of their arguments: an argument is a
\* string value, as it is in the code.

\* String.prototype.toLowerCase, on the ASCII letters.
lowerChar(c) ==
  IF c \in UpperLetters
    THEN LowerSeq[CHOOSE k \in 1..Len(UpperSeq) : UpperSeq[k] = c]
    ELSE c
toLowerCase[s \in Seq(STRING)] ==
  IF s = <<>> THEN <<>> ELSE <<lowerChar(Head(s))>> \o toLowerCase[Tail(s)]

\* String.prototype.includes
includes[s \in Seq(STRING), needle \in Seq(STRING)] ==
  \E i \in 0..(Len(s) - Len(needle)) : SubSeq(s, i + 1, i + Len(needle)) = needle

\* String.prototype.substring(0, n)
substring0[s \in Seq(STRING), n \in Nat] ==
  SubSeq(s, 1, IF Len(s) < n THEN Len(s) ELSE n)

\* String.prototype.trim, for the space character.
trimLeft[s \in Seq(STRING)] ==
  IF s # <<>> /\ Head(s) = " " THEN trimLeft[Tail(s)] ELSE s
trimRight[s \in Seq(STRING)] ==
  IF s # <<>> /\ s[Len(s)] = " " THEN trimRight[SubSeq(s, 1, Len(s) - 1)] ELSE s
trim[s \in Seq(STRING)] == trimRight[trimLeft[s]]

\* errorMsg.split(':')[0]
splitColonFirst[s \in Seq(STRING)] ==
  IF s = <<>> \/ Head(s) = ":" THEN <<>> ELSE <<Head(s)>> \o splitColonFirst[Tail(s)]

\* The characters of the text fragments the error messages are built from.
Chars(s) ==
  CASE s = "" -> <<>>
    [] s = "Proxy resolves to client IP, not a working proxy" ->
      <<"P", "r", "o", "x", "y", " ", "r", "e", "s", "o", "l", "v", "e",
        "s", " ", "t", "o", " ", "c", "l", "i", "e", "n", "t", " ", "I",
        "P", ",", " ", "n", "o", "t", " ", "a", " ", "w", "o", "r", "k",
        "i", "n", "g", " ", "p", "r", "o", "x", "y">>
    [] s = "Process timed out" ->
      <<"P", "r", "o", "c", "e", "s", "s", " ", "t", "i", "m", "e", "d",
        " ", "o", "u", "t">>
    [] s = "curl exited with code 7" ->
      <<"c", "u", "r", "l", " ", "e", "x", "i", "t", "e", "d", " ", "w",
        "i", "t", "h", " ", "c", "o", "d", "e", " ", "7">>
    [] s = "Invalid IP format received: " ->
      <<"I", "n", "v", "a", "l", "i", "d", " ", "I", "P", " ", "f", "o",
        "r", "m", "a", "t", " ", "r", "e", "c", "e", "i", "v", "e", "d",
        ":", " ">>
    [] s = "Request failed or returned invalid data. Response: " ->
      <<"R", "e", "q", "u", "e", "s", "t", " ", "f", "a", "i", "l", "e",
        "d", " ", "o", "r", " ", "r", "e", "t", "u", "r", "n", "e", "d",
        " ", "i", "n", "v", "a", "l", "i", "d", " ", "d", "a", "t", "a",
        ".", " ", "R", "e", "s", "p", "o", "n", "s", "e", ":", " ">>
    [] s = "spawn curl ENOENT" ->
      <<"s", "p", "a", "w", "n", " ", "c", "u", "r", "l", " ", "E", "N",
        "O", "E", "N", "T">>
    [] s = "Unknown error" ->
      <<"U", "n", "k", "n", "o", "w", "n", " ", "e", "r", "r", "o", "r">>
    [] s = "Connection reset by peer" ->
      <<"C", "o", "n", "n", "e", "c", "t", "i", "o", "n", " ", "r", "e",
        "s", "e", "t", " ", "b", "y", " ", "p", "e", "e", "r">>
    [] s = "Connection refused" ->
      <<"C", "o", "n", "n", "e", "c", "t", "i", "o", "n", " ", "r", "e",
        "f", "u", "s", "e", "d">>
    [] s = "DNS lookup failed" ->
      <<"D", "N", "S", " ", "l", "o", "o", "k", "u", "p", " ", "f", "a",
        "i", "l", "e", "d">>
    [] s = "<html>" ->
      <<"<", "h", "t", "m", "l", ">">>
    [] s = "Internal test error: " ->
      <<"I", "n", "t", "e", "r", "n", "a", "l", " ", "t", "e", "s", "t", " ",
        "e", "r", "r", "o", "r", ":", " ">>
    [] s = "ENOSPC: no space left on device, write" ->
      <<"E", "N", "O", "S", "P", "C", ":", " ", "n", "o", " ", "s", "p", "a",
        "c", "e", " ", "l", "e", "f", "t", " ", "o", "n", " ", "d", "e", "v",
        "i", "c", "e", ",", " ", "w", "r", "i", "t", "e">>

\* An error message is a sequence of fragments (the parts of a template
\* literal); MessageChars is the string it denotes.
MessageChars[msg \in Seq(STRING)] ==
  IF msg = <<>> THEN <<>> ELSE Chars(Head(msg)) \o MessageChars[Tail(msg)]

\* The histogram buckets getErrorType names, and the text each is found by.
ErrorBuckets ==
  <<
     [needle |->
        <<"t", "i", "m", "e", "o", "u", "t">>,
      bucket |->
        <<"T", "i", "m", "e", "o", "u", "t">>],
     [needle |->
        <<"c", "o", "n", "n", "e", "c", "t", "i", "o", "n", " ", "r", "e",
          "f", "u", "s", "e", "d">>,
      bucket |->
        <<"C", "o", "n", "n", "e", "c", "t", "i", "o", "n", " ", "r", "e",
          "f", "u", "s", "e", "d">>],
     [needle |->
        <<"r", "e", "s", "e", "t", " ", "b", "y", " ", "p", "e", "e", "r">>,
      bucket |->
        <<"C", "o", "n", "n", "e", "c", "t", "i", "o", "n", " ", "r", "e",
          "s", "e", "t">>],
     [needle |->
        <<"t", "l", "s", " ", "c", "o", "n", "n", "e", "c", "t", "i", "o",
          "n">>,
      bucket |->
        <<"T", "L", "S", " ", "e", "r", "r", "o", "r">>],
     [needle |->
        <<"s", "o", "c", "k", "e", "t", " ", "d", "i", "s", "c", "o", "n",
          "n", "e", "c", "t", "e", "d">>,
      bucket |->
        <<"S", "o", "c", "k", "e", "t", " ", "d", "i", "s", "c", "o", "n",
          "n", "e", "c", "t", "e", "d">>],
     [needle |->
        <<"d", "n", "s", " ", "l", "o", "o", "k", "u", "p", " ", "f", "a",
          "i", "l", "e", "d">>,
      bucket |->
        <<"D", "N", "S", " ", "l", "o", "o", "k", "u", "p", " ", "f", "a",
          "i", "l", "e", "d">>],
     [needle |->
        <<"p", "r", "o", "x", "y", " ", "r", "e", "s", "o", "l", "v", "e",
          "s", " ", "t", "o", " ", "c", "l", "i", "e", "n", "t", " ", "i",
          "p">>,
      bucket |->
        <<"P", "r", "o", "x", "y", " ", "r", "e", "s", "o", "l", "v", "e",
          "s", " ", "t", "o", " ", "c", "l", "i", "e", "n", "t", " ", "I",
          "P">>],
     [needle |->
        <<"p", "r", "o", "x", "y">>,
      bucket |->
        <<"P", "r", "o", "x", "y", " ", "e", "r", "r", "o", "r">>],
     [needle |->
        <<"e", "c", "o", "n", "n", "r", "e", "f", "u", "s", "e", "d">>,
      bucket |->
        <<"E", "C", "O", "N", "N", "R", "E", "F", "U", "S", "E", "D">>],
     [needle |->
        <<"i", "n", "v", "a", "l", "i", "d", " ", "i", "p", " ", "f", "o",
          "r", "m", "a", "t", " ", "r", "e", "c", "e", "i", "v", "e", "d">>,
      bucket |->
        <<"I", "n", "v", "a", "l", "i", "d", " ", "I", "P", " ", "f", "o",
          "r", "m", "a", "t">>] >>

UnknownErrorBucket ==
  <<"U", "n", "k", "n", "o", "w", "n", " ", "e", "r", "r", "o", "r">>

\* processProxiesWithQueue.getErrorType: the histogram bucket of an error
\* message: the bucket of the first needle the lower-cased message includes,
\* else the text before the first colon, trimmed, cut to 40 characters.
firstBucket[errorChars \in Seq(STRING), lowerMsg \in Seq(STRING), k \in Nat] ==
  IF k > Len(ErrorBuckets)
    THEN substring0[trim[splitColonFirst[errorChars]], 40]
    ELSE IF includes[lowerMsg, ErrorBuckets[k].needle]
           THEN ErrorBuckets[k].bucket
           ELSE firstBucket[errorChars, lowerMsg, k + 1]

getErrorType(errorMsg) ==
  IF errorMsg = NoMessage \/ MessageChars[errorMsg] = <<>>
    THEN UnknownErrorBucket
    ELSE firstBucket[MessageChars[errorMsg], toLowerCase[MessageChars[errorMsg]], 1]

\* ------------------------------------------------------------- probe result
\* The result object of testProxy (its stderr excerpt, which nothing reads,
\* is left out).  JSON.stringify drops fields that are undefined and
\* JSON.parse reads a missing field as undefined.
failResult_Working(normalized, errorMessage) ==
  [success |-> TRUE, proxy |-> normalized, ip |-> Undefined, error |-> errorMessage]
failResult(normalized, errorMessage) ==
  [success |-> FALSE, proxy |-> normalized, ip |-> Undefined, error |-> errorMessage]
successResult(normalized, ip) ==
  [success |-> TRUE, proxy |-> normalized, ip |-> ip, error |-> NoMessage]

SelfResolutionMessage == <<"Proxy resolves to client IP, not a working proxy">>

\* How the promise of runCurl may settle: resolved with the trimmed stdout
\* (exit code 0), or rejected because curl exited with another code, because
\* the timer killed it, or because the process could not be spawned.
resolveCurl(stdout) ==
  [settled |-> "resolve", stdout |-> stdout, message |-> NoMessage,
   code |-> Undefined, killed |-> FALSE]
rejectCurl(message, code, killed) ==
  [settled |-> "reject", stdout |-> "", message |-> message,
   code |-> code, killed |-> killed]
CurlOutcomes ==
  {resolveCurl(r) : r \in Responses}
    \cup {rejectCurl(<<"curl exited with code 7">>, Undefined, FALSE),
          rejectCurl(<<"Process timed out">>, Undefined, TRUE),
          rejectCurl(<<"spawn curl ENOENT">>, "ENOENT", FALSE)}

\* The outcomes drawn for the probes of the pipeline runs: an address that is
\* the caller's own in some runs and a foreign one in the others, and a
\* timeout.
RunOutcomes ==
  {resolveCurl("203.0.113.7"), rejectCurl(<<"Process timed out">>, Undefined, TRUE)}

\* testProxy, catch block: the message of the Failed result for a rejection
\* or an exception thrown while reading the response.
catchMessage(message, code, killed) ==
  LET m0 == IF message # NoMessage THEN message ELSE <<"Unknown error">>
      m1 == IF killed THEN <<"Process timed out">> ELSE m0
  IN IF code = "ECONNRESET" THEN <<"Connection reset by peer">>
     ELSE IF code = "ETIMEDOUT" THEN <<"Timeout of 12000ms exceeded">>
     ELSE IF code = "ECONNREFUSED" THEN <<"Connection refused">>
     ELSE IF code \in {"ENOTFOUND", "EAI_AGAIN"} THEN <<"DNS lookup failed">>
     ELSE IF killed THEN <<"Process timed out">>
     ELSE m1

\* A probe that takes any address curl prints for a foreign one.
probeResult_NoSelfCheck(proxyObj, currentPublicIp, curl) ==
  IF curl.settled = "resolve"
    THEN IF isValidIp(curl.stdout)
           THEN successResult(proxyObj.normalized, curl.stdout)
           ELSE failResult(proxyObj.normalized, <<"Invalid IP format received: ", curl.stdout>>)
    ELSE failResult(proxyObj.normalized,
                    catchMessage(curl.message, curl.code, curl.killed))
\* testProxy on a Probe Cache miss: the result for the way runCurl settled.
probeResult(proxyObj, currentPublicIp, curl) ==
  IF curl.settled = "resolve"
    THEN IF curl.stdout # ""
           THEN IF curl.stdout = currentPublicIp
                  THEN failResult(proxyObj.normalized, SelfResolutionMessage)
                  ELSE IF ~isValidIp(curl.stdout)
                         THEN failResult(proxyObj.normalized,
                                catchMessage(<<"Invalid IP format received: ", curl.stdout>>,
                                             Undefined, FALSE))
                         ELSE successResult(proxyObj.normalized, curl.stdout)
           ELSE failResult(proxyObj.normalized,
                  catchMessage(<<"Request failed or returned invalid data. Response: ", curl.stdout>>,
                               Undefined, FALSE))
    ELSE failResult(proxyObj.normalized,
                    catchMessage(curl.message, curl.code, curl.killed))

\* A lookup that returns every cached result as it is.
isFalsePositive_Never(cachedResult, currentPublicIp) == FALSE

\* testProxy on a fresh Probe Cache entry: whether the cached result is a
\* false positive that has to be rewritten as Failed.
isFalsePositive(cachedResult, currentPublicIp) ==
  cachedResult.success /\ cachedResult.ip = currentPublicIp

\* A lookup that takes every cache file for fresh.
cacheIsFresh_Always(mtimeMs, nowMs) == TRUE
\* testProxy: Date.now() - cacheStat.mtimeMs < CACHE_VALIDITY_MS
cacheIsFresh(mtimeMs, nowMs) == nowMs - mtimeMs < CACHE_VALIDITY_MS

\* ------------------------------------------------------------------- state
\* A worker that holds no result yet.
NoResult == [success |-> FALSE, proxy |-> <<>>, ip |-> Undefined, error |-> NoMessage]

\* getInitialResults
getInitialResults == [t \in Types |-> [working |-> <<>>, failed |-> <<>>]]

\* A file that does not exist, and a file with its modification time.  form
\* is what reading and parsing the file gives: "json" (content is the value
\* JSON.parse returns), "unreadable" (readFile rejects), "garbled"
\* (JSON.parse throws) or "null" (the JSON text null: reading a property of
\* the parsed value throws).
NoFile == [exists |-> FALSE, mtimeMs |-> 0, form |-> "json", content |-> NoResult]
File(mtimeMs, content) ==
  [exists |-> TRUE, mtimeMs |-> mtimeMs, form |-> "json", content |-> content]
BrokenFile(mtimeMs, form) ==
  [exists |-> TRUE, mtimeMs |-> mtimeMs, form |-> form, content |-> NoResult]

\* JSON.parse('{}'): an object none of whose fields is defined (undefined is
\* falsy where the code tests success).
EmptyObject == [success |-> FALSE, proxy |-> <<>>, ip |-> Undefined, error |-> NoMessage]

\* testProxy, the try block of a cache hit: readFile and JSON.parse succeed
\* and cachedResult.success can be read.
usable(entry) == entry.form = "json"
NoResultsFile == [exists |-> FALSE, content |-> getInitialResults]
NoIpsFile == [exists |-> FALSE, content |-> <<>>]

\* The Probe Cache files the candidates and the command line list map to.
CacheKeys ==
  {cacheKey(CandidatePool[i]) : i \in 1..Len(CandidatePool)} \cup {cacheKey(CliProxy)}

VARIABLES
  now,                  \* Date.now()
  cache,                \* results_cache/: file name -> NoFile or File(mtimeMs, result)
  disk,                 \* outputs/proxy_results.json: [exists, content]
  uniqueIpsFile,        \* outputs/unique_working_ips.txt
  pc,                   \* detectProxies: "idle", "loop" (for-loop head), "batch", "returned"
  returned,             \* what detectProxies returned: "aborted", "results"
  currentPublicIp,
  results,              \* detectProxies: the run state in memory
  proxiesByType,
  typeIdx,              \* position of the for loop in TypeOrder
  proxiesToTest,        \* processProxiesWithQueue locals ...
  workingSet,
  failedSet,
  index,
  active,
  finished,
  detected,
  failed,
  totalWorkingCount,
  totalFailedCount,
  testedCountSinceSave,
  errorHistogram,
  workers,              \* the worker closures: [pc, cur, path, res]
  oracle,               \* how the probe of each candidate to test will settle
  handed,               \* history: testProxy calls per position of proxiesToTest
  probes,               \* history: external probes executed in this run
  start,                \* history: the Probe Cache and the sets when the batch began
  lastRun,              \* history: the candidates and the result of the last full run
  emitted,              \* history: forced checkpoints and final statistics of this run
  faults,               \* environment: the directories that reject writes
  feeds,                \* environment: how the download of each source URL will end
  sourceCache,          \* cache/: file name -> the cached copy of a source
  loads,                \* the loadProxiesFromSource calls: [pc, path, proxies]
  loaded,               \* what loadAndNormalizeSources returned
  text,                 \* the arguments of the line functions: [line, typeHint, sourceUrl]
  reply,                \* what the line functions returned for text
  logInterval,          \* processProxiesWithQueue: the reporter timer, "armed" or "idle"
  snapshot,             \* the statistics the reporter timer logged last
  engine,               \* the implementation that is loaded: "workers" or "queue"
  curlCall,             \* a runCurl call: its closure, the child process and its promise
  proxyFiles,           \* proxies/: what writeWorkingProxiesToFiles wrote
  validation,           \* tests.js: the validateNormalizeProxyLine run and the exit code
  update,               \* an updateFreeProxyList call and the CSV export it starts
  cron                  \* a run of cronjob.sh

diskVars == <<disk, uniqueIpsFile>>
runVars == <<currentPublicIp, proxiesByType, typeIdx>>
countVars == <<finished, detected, failed, totalWorkingCount, totalFailedCount,
               testedCountSinceSave, errorHistogram>>
setVars == <<results, workingSet, failedSet>>
batchVars == <<proxiesToTest, index, active, workers, oracle, handed>>
histVars == <<probes, start, lastRun>>
sourceVars == <<feeds, sourceCache, loads, loaded, text, reply>>
reportVars == <<logInterval, snapshot, engine>>
toolVars == <<curlCall, proxyFiles, validation, update, cron>>
vars == <<now, cache, diskVars, pc, returned, runVars, setVars, countVars,
          batchVars, histVars, emitted, faults, sourceVars, reportVars, toolVars>>

\* No source is being loaded and no line is being converted.
NoSources ==
  /\ feeds = <<>>
  /\ sourceCache = <<>>
  /\ loads = <<>>
  /\ loaded = <<>>
  /\ text = <<>>
  /\ reply = <<>>

\* No batch has armed the reporter timer, and nothing has been logged by it.
NoSnapshot == [type |-> "none", active |-> 0, finished |-> 0, detected |-> 0, failed |-> 0]
NoReporter ==
  /\ logInterval = "idle"
  /\ snapshot = NoSnapshot
  /\ engine = "workers"

\* A clearInterval that leaves the timer running.
clearInterval_Never(timer) == timer
\* clearInterval(logInterval)
clearInterval(timer) == "idle"

\* No command line tool and no exported operation is running.
NoTools ==
  /\ curlCall = <<>>
  /\ proxyFiles = <<>>
  /\ validation = <<>>
  /\ update = <<>>
  /\ cron = <<>>

\* The histories outside a batch and before the first run.
NoStart == [cache |-> <<>>, working |-> {}, failed |-> {}]
NoRun == [exists |-> FALSE, proxiesByType |-> <<>>, results |-> <<>>]
NoneEmitted == [forced |-> 0, stats |-> 0]

\* The directories a fault may hit: results_cache/ and outputs/.
Directories == {"cache", "outputs"}

\* fs.writeFileSync or writeFile into directory dir, inside a try block whose
\* catch swallows the error: the file afterwards.
written(dir, file, content) == IF dir \in faults THEN file ELSE content

\* The batch locals outside a batch.
NoBatch ==
  /\ proxiesToTest' = <<>>
  /\ workingSet' = {}
  /\ failedSet' = {}
  /\ index' = 0
  /\ active' = 0
  /\ finished' = 0
  /\ detected' = 0
  /\ failed' = 0
  /\ totalWorkingCount' = 0
  /\ totalFailedCount' = 0
  /\ testedCountSinceSave' = 0
  /\ errorHistogram' = <<>>
  /\ workers' = <<>>
  /\ oracle' = <<>>
  /\ handed' = <<>>

\* The pipeline's variables when the process starts over empty directories.
ProcessStart ==
  /\ cache = [k \in CacheKeys |-> NoFile]
  /\ disk = NoResultsFile
  /\ uniqueIpsFile = NoIpsFile
  /\ pc = "idle"
  /\ returned = "none"
  /\ currentPublicIp = Undefined
  /\ results = getInitialResults
  /\ proxiesByType = [t \in Types |-> <<>>]
  /\ typeIdx = 0
  /\ proxiesToTest = <<>>
  /\ workingSet = {}
  /\ failedSet = {}
  /\ index = 0
  /\ active = 0
  /\ finished = 0
  /\ detected = 0
  /\ failed = 0
  /\ totalWorkingCount = 0
  /\ totalFailedCount = 0
  /\ testedCountSinceSave = 0
  /\ errorHistogram = <<>>
  /\ workers = <<>>
  /\ oracle = <<>>
  /\ handed = <<>>
  /\ probes = 0
  /\ start = NoStart
  /\ lastRun = NoRun
  /\ emitted = NoneEmitted
  /\ faults = {}

Init == now = 0 /\ ProcessStart /\ NoSources /\ NoReporter /\ NoTools

\* ------------------------------------------------------ helpers of the run
Min(a, b) == IF a < b THEN a ELSE b
Range(seq) == {seq[i] : i \in 1..Len(seq)}

\* groupProxiesByType
groupProxiesByType(dedupedProxies) ==
  [t \in Types |-> SelectSeq(dedupedProxies, LAMBDA obj : obj.type = t)]

\* The deduplicated candidates of a run whose feeds list the pool entries S.
CandidateList(S) ==
  LET RECURSIVE take(_)
      take(i) == IF i > Len(CandidatePool) THEN <<>>
                 ELSE (IF i \in S THEN <<CandidatePool[i]>> ELSE <<>>) \o take(i + 1)
  IN take(1)
CandidateChoices ==
  {S \in SUBSET (1..Len(CandidatePool)) : Cardinality(S) <= MaxCandidates}

\* detectProxies: the run state loaded from proxy_results.json.
loadResults(file) == IF file.exists THEN file.content ELSE getInitialResults

\* A save that writes an empty run state.
saveResults_Empty(res) == [exists |-> TRUE, content |-> getInitialResults]
\* saveResults: proxy_results.json after the run state is written.
saveResults(res) == [exists |-> TRUE, content |-> res]

\* saveUniqueIpResults: the working IPs of all protocols, without repeats, in
\* order of first appearance.
saveUniqueIpResults(res) ==
  LET all == res["socks5"].working \o res["socks4"].working
               \o res["http"].working \o res["https"].working
      ips == SelectSeq(all, LAMBDA r : r.ip # Undefined)
      numbered == [i \in 1..Len(ips) |-> [i |-> i, ip |-> ips[i].ip]]
      firsts == SelectSeq(numbered,
                          LAMBDA e : \A j \in 1..(e.i - 1) : ips[j].ip # e.ip)
  IN [exists |-> TRUE, content |-> [k \in 1..Len(firsts) |-> firsts[k].ip]]

\* A filter that keeps every candidate.
filterKnown_KeepAll(proxyObjs, wSet, fSet) == proxyObjs
\* processProxiesWithQueue: the candidates neither in workingSet nor in
\* failedSet.
filterKnown(proxyObjs, wSet, fSet) ==
  SelectSeq(proxyObjs,
            LAMBDA c : ~(c.normalized \in wSet \/ c.normalized \in fSet))

\* A worker loop that reads the shared index without advancing it.
claimIndex_NoAdvance(i) == i
\* The worker loop's `index++`: the value of index after one claim.
claimIndex(i) == i + 1

\* The value of index after k claims, starting from 0.
indexAfter[k \in Nat] == IF k = 0 THEN 0 ELSE claimIndex(indexAfter[k - 1])

\* A pool with one worker per candidate, whatever CONCURRENCY is.
workerCount_Uncapped(total) == total
\* Math.min(CONCURRENCY, total)
workerCount(total) == Min(CONCURRENCY, total)

\* Array.from({ length: workerCount }, async () => ...): the workers start one
\* after the other, each running up to its first await; spawnClaim(w) is the
\* index worker w claims, and the others are the shared variables once all
\* workers have started.
spawnClaim(w) == indexAfter[w - 1]
spawnIndex(total) == indexAfter[workerCount(total)]
\* A pool that counts every candidate of the list as in flight.
spawnActive_All(total) == total
spawnActive(total) ==
  Cardinality({w \in 1..workerCount(total) : spawnClaim(w) < total})
spawnHanded(total) ==
  [i \in 0..(total - 1) |->
     Cardinality({w \in 1..workerCount(total) : spawnClaim(w) = i})]

\* A guard that lets every push through.
has_Never(set, proxy) == FALSE
\* recordResult: the guard of a push, Set.prototype.has.
has(set, proxy) == proxy \in set

\* A histogram that loses every count.
bump_Lost(histogram, errType) == histogram
\* errorHistogram[errType] = (errorHistogram[errType] || 0) + 1
bump(histogram, errType) ==
  IF errType \in DOMAIN histogram
    THEN [histogram EXCEPT ![errType] = @ + 1]
    ELSE histogram @@ (errType :> 1)

\* processProxiesWithQueue.recordResult: the shared state after result is
\* recorded (currentResults is results[type]: the same object).
recordResult(result) ==
  LET type == TypeOrder[typeIdx]
      same == [results |-> results, workingSet |-> workingSet, failedSet |-> failedSet,
               detected |-> detected, failed |-> failed,
               totalWorkingCount |-> totalWorkingCount,
               totalFailedCount |-> totalFailedCount,
               errorHistogram |-> errorHistogram,
               testedCountSinceSave |-> testedCountSinceSave + 1]
  IN IF result.success
       THEN IF ~has(workingSet, result.proxy)
              THEN [same EXCEPT
                      !.results = [results EXCEPT ![type].working = Append(@, result)],
                      !.workingSet = workingSet \cup {result.proxy},
                      !.detected = detected + 1,
                      !.totalWorkingCount = totalWorkingCount + 1]
              ELSE same
       ELSE IF ~has(failedSet, result.proxy)
              THEN [same EXCEPT
                      !.results = [results EXCEPT ![type].failed = Append(@, result)],
                      !.failedSet = failedSet \cup {result.proxy},
                      !.failed = failed + 1,
                      !.totalFailedCount = totalFailedCount + 1,
                      !.errorHistogram = bump(errorHistogram, getErrorType(result.error))]
              ELSE same

\* A persistIfNeeded that saves only when it is forced.
persistIfNeeded_Never(force, count) == force
\* persistIfNeeded: whether it writes a checkpoint.
persistIfNeeded(force, count) == force \/ ~(count < SAVE_INTERVAL)

\* The worker loop from the finally block of one turn to the await of the
\* next: active--, finished++, currentIndex = index++, and, unless
\* currentIndex >= total, active++ and the call of testProxy.
NextClaim(total) ==
  /\ finished' = finished + 1
  /\ index' = claimIndex(index)
  /\ active' = IF index < total THEN (active - 1) + 1 ELSE active - 1
  /\ handed' = IF index < total THEN [handed EXCEPT ![index] = @ + 1] ELSE handed

\* testProxy from its call to its return with no step of another worker in
\* between: the result, and whether the cache file is written.
testProxyAlone(proxyObj, entry, ip, curl, nowMs) ==
  IF entry.exists /\ cacheIsFresh(entry.mtimeMs, nowMs) /\ usable(entry)
    THEN IF isFalsePositive(entry.content, ip)
           THEN [result |-> failResult(proxyObj.normalized, SelfResolutionMessage),
                 written |-> TRUE]
           ELSE [result |-> entry.content, written |-> FALSE]
    ELSE [result |-> probeResult(proxyObj, ip, curl), written |-> TRUE]

\* The Probe Cache and the sets of canonical strings after the candidates
\* from position i on are tested one after the other, in list order, each
\* testProxy call returning before the next begins.
RECURSIVE oneByOne(_, _)
oneByOne(i, acc) ==
  IF i > Len(proxiesToTest)
    THEN acc
    ELSE LET c == proxiesToTest[i]
             t == testProxyAlone(c, acc.cache[cacheKey(c)], currentPublicIp,
                                 oracle[i], now)
             r == t.result
         IN oneByOne(i + 1,
                     [cache |-> IF t.written
                                  THEN [acc.cache EXCEPT ![cacheKey(c)] = File(now, r)]
                                  ELSE acc.cache,
                      working |-> IF r.success THEN acc.working \cup {r.proxy}
                                               ELSE acc.working,
                      failed |-> IF r.success THEN acc.failed
                                              ELSE acc.failed \cup {r.proxy}])

\* A worker closure.
Worker(pcv, cur, path, res) == [pc |-> pcv, cur |-> cur, path |-> path, res |-> res]
ExitedWorker == Worker("done", -1, "none", NoResult)

\* The candidate worker w is testing.
ProxyOf(w) == proxiesToTest[workers[w].cur + 1]

\* --------------------------------------------------------- detectProxies
\* How the lookup of the caller's public address ends: the text the service
\* answers with, or "<error>" when curl fails or leaves no file.
IpLookups == {"<error>"} \cup Responses

\* A run that goes on whatever the lookup gave.
canContinue_Always(answer) == TRUE
\* detectProxies goes on past the lookup: getCurrentPublicIp did not throw,
\* and gave a valid IP address.
canContinue(answer) == answer # "<error>" /\ isValidIp(answer)

\* getCurrentPublicIp fails, or answers with a text that is no IP address:
\* detectProxies returns before it loads anything.
AbortRun ==
  /\ pc = "idle"
  /\ \E answer \in IpLookups :
       /\ ~canContinue(answer)
       /\ returned' = "aborted"
  /\ pc' = "returned"
  /\ UNCHANGED <<reportVars, toolVars, sourceVars, faults, emitted, now, cache, diskVars, runVars, setVars, countVars, batchVars, histVars>>

\* detectProxies up to the for loop: the caller's public IP, the run state of
\* the previous runs, the deduplicated candidates of the feeds.
StartRun ==
  /\ pc = "idle"
  /\ \E ip \in IpLookups, S \in CandidateChoices :
       /\ canContinue(ip)
       /\ currentPublicIp' = ip
       /\ proxiesByType' = groupProxiesByType(CandidateList(S))
  /\ results' = loadResults(disk)
  /\ typeIdx' = 1
  /\ pc' = "loop"
  /\ UNCHANGED <<reportVars, toolVars, sourceVars, faults, emitted, now, cache, diskVars, returned, workingSet, failedSet, countVars,
                 batchVars, histVars>>

\* for loop: `if (!proxyObjs || proxyObjs.length === 0) continue;`
SkipEmptyType ==
  /\ pc = "loop"
  /\ typeIdx <= Len(TypeOrder)
  /\ proxiesByType[TypeOrder[typeIdx]] = <<>>
  /\ typeIdx' = typeIdx + 1
  /\ UNCHANGED <<reportVars, toolVars, sourceVars, faults, emitted, now, cache, diskVars, pc, returned, currentPublicIp, proxiesByType,
                 setVars, countVars, batchVars, histVars>>

\* processProxiesWithQueue when every candidate is already known
\* (total === 0): it logs the statistics and returns.
BatchAllKnown ==
  /\ pc = "loop"
  /\ typeIdx <= Len(TypeOrder)
  /\ LET type == TypeOrder[typeIdx]
         proxyObjs == proxiesByType[type]
         wSet == {r.proxy : r \in Range(results[type].working)}
         fSet == {r.proxy : r \in Range(results[type].failed)}
     IN /\ proxyObjs # <<>>
        /\ filterKnown(proxyObjs, wSet, fSet) = <<>>
  /\ typeIdx' = typeIdx + 1
  /\ emitted' = [emitted EXCEPT !.stats = @ + 1]
  /\ UNCHANGED <<reportVars, toolVars, sourceVars, faults, now, cache, diskVars, pc, returned, currentPublicIp, proxiesByType,
                 setVars, countVars, batchVars, histVars>>

\* processProxiesWithQueue up to `await Promise.all(workers)`: the filter, the
\* counters, and the workers, each of which claims an index and calls
\* testProxy, which runs up to its first await (the stat of the cache file).
StartBatchWith(outcomes) ==
  /\ pc = "loop"
  /\ typeIdx <= Len(TypeOrder)
  /\ LET type == TypeOrder[typeIdx]
         proxyObjs == proxiesByType[type]
         wSet == {r.proxy : r \in Range(results[type].working)}
         fSet == {r.proxy : r \in Range(results[type].failed)}
         toTest == filterKnown(proxyObjs, wSet, fSet)
         total == Len(toTest)
         n == workerCount(total)
     IN /\ proxyObjs # <<>>
        /\ total > 0
        /\ proxiesToTest' = toTest
        /\ workingSet' = wSet
        /\ failedSet' = fSet
        /\ totalWorkingCount' = Len(results[type].working)
        /\ totalFailedCount' = Len(results[type].failed)
        /\ workers' = [w \in 1..n |->
                         IF spawnClaim(w) < total
                           THEN Worker("stat", spawnClaim(w), "none", NoResult)
                           ELSE ExitedWorker]
        /\ index' = spawnIndex(total)
        /\ active' = spawnActive(total)
        /\ handed' = spawnHanded(total)
        /\ oracle' \in [1..total -> outcomes]
        /\ start' = [cache |-> cache, working |-> wSet, failed |-> fSet]
  /\ finished' = 0
  /\ detected' = 0
  /\ failed' = 0
  /\ testedCountSinceSave' = 0
  /\ errorHistogram' = <<>>
  /\ pc' = "batch"
  /\ logInterval' = "armed"
  /\ UNCHANGED <<snapshot, engine, toolVars, sourceVars, faults, emitted, now, cache, diskVars, returned, runVars, results, probes, lastRun>>

\* A batch of a pipeline run.
StartBatch == StartBatchWith(RunOutcomes)

\* testProxy after `await stat(cachePath)`: a fresh entry is read, otherwise
\* curl is spawned.
StatDone(w) ==
  /\ pc = "batch"
  /\ workers[w].pc = "stat"
  /\ LET entry == cache[cacheKey(ProxyOf(w))]
         fresh == entry.exists /\ cacheIsFresh(entry.mtimeMs, now)
     IN /\ workers' = [workers EXCEPT ![w].pc = IF fresh THEN "read" ELSE "curl",
                                      ![w].path = IF fresh THEN "hit" ELSE "miss"]
        /\ probes' = IF fresh THEN probes ELSE probes + 1
  /\ UNCHANGED <<reportVars, toolVars, sourceVars, faults, emitted, now, cache, diskVars, pc, returned, runVars, setVars, countVars,
                 proxiesToTest, index, active, oracle, handed, start, lastRun>>

\* readFile(cachePath) takes the content of the cache file; when the read or
\* the parse throws, the catch block goes on to the fresh probe.
ReadFile(w) ==
  /\ pc = "batch"
  /\ workers[w].pc = "read"
  /\ LET entry == cache[cacheKey(ProxyOf(w))]
     IN IF entry.exists /\ usable(entry)
          THEN /\ workers' = [workers EXCEPT ![w].pc = "parsed",
                                             ![w].res = entry.content]
               /\ probes' = probes
          ELSE /\ workers' = [workers EXCEPT ![w].pc = "curl", ![w].path = "miss"]
               /\ probes' = probes + 1
  /\ UNCHANGED <<reportVars, toolVars, sourceVars, faults, emitted, now, cache, diskVars, pc, returned, runVars, setVars,
                 countVars, proxiesToTest, index, active, oracle, handed, start, lastRun>>

\* The worker loop after `await testProxy(...)`: recordResult, the finally
\* block, and the next turn of the loop up to the next await.
Complete(w, result) ==
  LET m == recordResult(result)
      save == persistIfNeeded(FALSE, m.testedCountSinceSave)
      currentIndex == index
      more == currentIndex < Len(proxiesToTest)
  IN /\ results' = m.results
     /\ workingSet' = m.workingSet
     /\ failedSet' = m.failedSet
     /\ detected' = m.detected
     /\ failed' = m.failed
     /\ totalWorkingCount' = m.totalWorkingCount
     /\ totalFailedCount' = m.totalFailedCount
     /\ errorHistogram' = m.errorHistogram
     /\ testedCountSinceSave' = IF save THEN 0 ELSE m.testedCountSinceSave
     /\ disk' = IF save THEN written("outputs", disk, saveResults(m.results)) ELSE disk
     /\ uniqueIpsFile' = IF save
                          THEN written("outputs", uniqueIpsFile,
                                       saveUniqueIpResults(m.results))
                          ELSE uniqueIpsFile
     /\ NextClaim(Len(proxiesToTest))
     /\ workers' = [workers EXCEPT ![w] =
                      IF more THEN Worker("stat", currentIndex, "none", NoResult)
                              ELSE ExitedWorker]
     /\ UNCHANGED <<reportVars, toolVars, sourceVars, faults, emitted, now, cache, pc, returned, runVars, proxiesToTest, oracle, histVars>>

\* testProxy after the cache file is read and parsed: a cached Working result
\* with the caller's own address is rewritten as Failed, any other cached
\* result is returned as it is.
CacheHit(w) ==
  /\ pc = "batch"
  /\ workers[w].pc = "parsed"
  /\ IF isFalsePositive(workers[w].res, currentPublicIp)
       THEN /\ workers' = [workers EXCEPT
                             ![w].pc = "write",
                             ![w].res = failResult(ProxyOf(w).normalized,
                                                   SelfResolutionMessage)]
            /\ UNCHANGED <<reportVars, toolVars, sourceVars, faults, emitted, now, cache, diskVars, pc, returned, runVars, setVars,
                           countVars, proxiesToTest, index, active, oracle, handed,
                           histVars>>
       ELSE Complete(w, workers[w].res)

\* testProxy after `await runCurl(...)` settles: the result of the probe.
CurlSettles(w) ==
  /\ pc = "batch"
  /\ workers[w].pc = "curl"
  /\ workers' = [workers EXCEPT
                   ![w].pc = "write",
                   ![w].res = probeResult(ProxyOf(w), currentPublicIp,
                                          oracle[workers[w].cur + 1])]
  /\ UNCHANGED <<reportVars, toolVars, sourceVars, faults, emitted, now, cache, diskVars, pc, returned, runVars, setVars, countVars,
                 proxiesToTest, index, active, oracle, handed, histVars>>

\* writeFile(cachePath, JSON.stringify(result)) replaces the cache file; an
\* error of the write is ignored.
WriteFile(w) ==
  /\ pc = "batch"
  /\ workers[w].pc = "write"
  /\ cache' = [cache EXCEPT ![cacheKey(ProxyOf(w))] =
                 written("cache", @, File(now, workers[w].res))]
  /\ workers' = [workers EXCEPT ![w].pc = "ret"]
  /\ UNCHANGED <<reportVars, toolVars, sourceVars, faults, emitted, now, diskVars, pc, returned, runVars, setVars, countVars,
                 proxiesToTest, index, active, oracle, handed, histVars>>

\* testProxy returns the result it has written.
Return(w) ==
  /\ pc = "batch"
  /\ workers[w].pc = "ret"
  /\ Complete(w, workers[w].res)

\* processProxiesWithQueue after `await Promise.all(workers)`: the forced
\* checkpoint; detectProxies goes on with the next protocol.
FinishBatch ==
  /\ pc = "batch"
  /\ \A w \in DOMAIN workers : workers[w].pc = "done"
  /\ disk' = written("outputs", disk, saveResults(results))
  /\ uniqueIpsFile' = written("outputs", uniqueIpsFile, saveUniqueIpResults(results))
  /\ emitted' = [forced |-> emitted.forced + 1, stats |-> emitted.stats + 1]
  /\ pc' = "loop"
  /\ typeIdx' = typeIdx + 1
  /\ NoBatch
  /\ start' = NoStart
  /\ logInterval' = clearInterval(logInterval)
  /\ UNCHANGED <<snapshot, engine, toolVars, sourceVars, faults, now, cache, returned, currentPublicIp, proxiesByType, results, probes,
                 lastRun>>

\* detectProxies after the for loop: the final save.  The history of the last
\* full run is kept when `track` is set.
FinishRunWith(track) ==
  /\ pc = "loop"
  /\ typeIdx > Len(TypeOrder)
  /\ disk' = written("outputs", disk, saveResults(results))
  /\ uniqueIpsFile' = written("outputs", uniqueIpsFile, saveUniqueIpResults(results))
  /\ pc' = "returned"
  /\ returned' = "results"
  /\ lastRun' = IF track
                  THEN [exists |-> TRUE, proxiesByType |-> proxiesByType,
                        results |-> results]
                  ELSE lastRun
  /\ UNCHANGED <<reportVars, toolVars, sourceVars, faults, emitted, now, cache, runVars, setVars, countVars, batchVars, probes, start>>

FinishRun == FinishRunWith(FALSE)

\* The process exits: its memory is gone.
Exit ==
  /\ pc = "returned"
  /\ pc' = "idle"
  /\ returned' = "none"
  /\ currentPublicIp' = Undefined
  /\ proxiesByType' = [t \in Types |-> <<>>]
  /\ typeIdx' = 0
  /\ results' = getInitialResults
  /\ probes' = 0
  /\ emitted' = NoneEmitted
  /\ UNCHANGED <<reportVars, toolVars, sourceVars, faults, now, cache, diskVars, workingSet, failedSet, countVars, batchVars,
                 start, lastRun>>

\* The testProxy command line entry point: testProxy(norm, ip, false) probes
\* the listed proxy whatever the cache holds and writes the result.
CliTestProxy ==
  /\ pc = "idle"
  /\ \E ip \in ValidIps, curl \in RunOutcomes :
       cache' = [cache EXCEPT ![cacheKey(CliProxy)] =
                   written("cache", @, File(now, probeResult(CliProxy, ip, curl)))]
  /\ UNCHANGED <<reportVars, toolVars, sourceVars, faults, emitted, now, diskVars, pc, returned, runVars, setVars, countVars, batchVars,
                 histVars>>

\* Time passes between two runs.
Tick ==
  /\ pc = "idle"
  /\ now < MaxTicks * TickMs
  /\ now' = now + TickMs
  /\ UNCHANGED <<reportVars, toolVars, sourceVars, faults, emitted, cache, diskVars, pc, returned, runVars, setVars, countVars, batchVars,
                 histVars>>

WorkerStep ==
  \E w \in DOMAIN workers :
    StatDone(w) \/ ReadFile(w) \/ CacheHit(w) \/ CurlSettles(w) \/ WriteFile(w) \/ Return(w)

Next ==
  \/ AbortRun
  \/ StartRun
  \/ SkipEmptyType
  \/ BatchAllKnown
  \/ StartBatch
  \/ WorkerStep
  \/ FinishBatch
  \/ FinishRun
  \/ Exit
  \/ CliTestProxy
  \/ Tick

Spec == Init /\ [][Next]_vars

\* ------------------------------------------------------- successive runs
\* Runs of the pipeline one after the other, with the candidates and the
\* result of each full run kept for the next.
FinishRunTracked == FinishRunWith(TRUE)

RepeatNext ==
  \/ StartRun
  \/ SkipEmptyType
  \/ BatchAllKnown
  \/ StartBatch
  \/ WorkerStep
  \/ FinishBatch
  \/ FinishRunTracked
  \/ Exit

RepeatSpec == Init /\ [][RepeatNext]_vars

\* ----------------------------------------------------------- a single run
\* One run of the pipeline from an empty run state and an empty Probe Cache,
\* with every way the probe's curl may settle.  The event loop runs every
\* callback that is ready, and every curl settles (runCurl's timer kills it
\* after TIMEOUT + 500 ms), so the steps of the workers and the continuation
\* of Promise.all are taken when they stay enabled.
StartBatchAny == StartBatchWith(CurlOutcomes)

BatchNext ==
  \/ StartRun
  \/ SkipEmptyType
  \/ StartBatchAny
  \/ WorkerStep
  \/ FinishBatch
  \/ FinishRun

BatchSpec ==
  Init /\ [][BatchNext]_vars /\ WF_vars(WorkerStep) /\ WF_vars(FinishBatch)

\* --------------------------------------------------------- the Probe Cache
\* One run over a Probe Cache that earlier runs, or anything else that
\* writes into results_cache/, left behind: the file of the first candidate
\* is missing, holds a result, holds another JSON value, or cannot be read
\* or parsed; its age is just below or exactly CACHE_VALIDITY_MS.  Writes
\* into results_cache/ may fail.
CacheEntries ==
  {NoFile}
    \cup {File(0, r) : r \in {successResult(CliProxy.normalized, ip) : ip \in ValidIps}
                               \cup {failResult(CliProxy.normalized, <<"Process timed out">>),
                                     EmptyObject}}
    \cup {BrokenFile(0, f) : f \in {"unreadable", "garbled", "null"}}
LookupTimes == {CACHE_VALIDITY_MS - 1, CACHE_VALIDITY_MS}

LookupInit ==
  /\ now \in LookupTimes
  /\ \E e \in CacheEntries :
       cache = [k \in CacheKeys |-> IF k = cacheKey(CliProxy) THEN e ELSE NoFile]
  /\ disk = NoResultsFile
  /\ uniqueIpsFile = NoIpsFile
  /\ pc = "idle"
  /\ returned = "none"
  /\ currentPublicIp = Undefined
  /\ results = getInitialResults
  /\ proxiesByType = [t \in Types |-> <<>>]
  /\ typeIdx = 0
  /\ proxiesToTest = <<>>
  /\ workingSet = {}
  /\ failedSet = {}
  /\ index = 0
  /\ active = 0
  /\ finished = 0
  /\ detected = 0
  /\ failed = 0
  /\ totalWorkingCount = 0
  /\ totalFailedCount = 0
  /\ testedCountSinceSave = 0
  /\ errorHistogram = <<>>
  /\ workers = <<>>
  /\ oracle = <<>>
  /\ handed = <<>>
  /\ probes = 0
  /\ start = NoStart
  /\ lastRun = NoRun
  /\ emitted = NoneEmitted
  /\ faults = {}
  /\ NoSources
  /\ NoReporter
  /\ NoTools

\* results_cache/ begins or ceases to reject writes.
CacheFault ==
  /\ faults' = IF "cache" \in faults THEN faults \ {"cache"} ELSE faults \cup {"cache"}
  /\ UNCHANGED <<reportVars, toolVars, sourceVars, emitted, now, cache, diskVars, pc, returned, runVars, setVars, countVars,
                 batchVars, histVars>>

LookupNext ==
  \/ StartRun
  \/ SkipEmptyType
  \/ StartBatch
  \/ WorkerStep
  \/ FinishBatch
  \/ FinishRun
  \/ CacheFault

LookupSpec == LookupInit /\ [][LookupNext]_vars

\* ---------------------------------------------------------- the worker pool
\* The worker pool of processProxiesWithQueue with to-test lists longer than
\* CONCURRENCY.  The workers are interchangeable closures over the shared
\* variables index, active and finished, so this specification keeps those
\* and the number of testProxy calls per position of the list, not which
\* worker holds which candidate; a call of testProxy is one await.  The
\* candidates are named by their position in the list.
PoolInit ==
  /\ now = 0
  /\ cache = [k \in CacheKeys |-> NoFile]
  /\ disk = NoResultsFile
  /\ uniqueIpsFile = NoIpsFile
  /\ pc = "spawn"
  /\ returned = "none"
  /\ currentPublicIp = Undefined
  /\ results = getInitialResults
  /\ proxiesByType = [t \in Types |-> <<>>]
  /\ typeIdx = 0
  /\ \E total \in 1..MaxPoolTotal : proxiesToTest = [i \in 1..total |-> i]
  /\ workingSet = {}
  /\ failedSet = {}
  /\ index = 0
  /\ active = 0
  /\ finished = 0
  /\ detected = 0
  /\ failed = 0
  /\ totalWorkingCount = 0
  /\ totalFailedCount = 0
  /\ testedCountSinceSave = 0
  /\ errorHistogram = <<>>
  /\ workers = <<>>
  /\ oracle = <<>>
  /\ handed = [i \in 0..(Len(proxiesToTest) - 1) |-> 0]
  /\ probes = 0
  /\ start = NoStart
  /\ lastRun = NoRun
  /\ emitted = NoneEmitted
  /\ faults = {}
  /\ NoSources
  /\ NoReporter
  /\ NoTools

poolFrame ==
  <<now, cache, diskVars, returned, runVars, setVars, detected, failed,
    totalWorkingCount, totalFailedCount, testedCountSinceSave, errorHistogram,
    proxiesToTest, workers, oracle, histVars>>

\* The workers are created and each runs up to its first await.
PoolSpawn ==
  /\ pc = "spawn"
  /\ index' = spawnIndex(Len(proxiesToTest))
  /\ active' = spawnActive(Len(proxiesToTest))
  /\ handed' = spawnHanded(Len(proxiesToTest))
  /\ pc' = "batch"
  /\ UNCHANGED <<reportVars, toolVars, sourceVars, faults, emitted, poolFrame, finished>>

\* The testProxy call of one of the workers in flight returns; the worker
\* goes on to its next claim.
PoolComplete ==
  /\ pc = "batch"
  /\ active > 0
  /\ NextClaim(Len(proxiesToTest))
  /\ UNCHANGED <<reportVars, toolVars, sourceVars, faults, emitted, poolFrame, pc>>

\* Every worker has left its loop: Promise.all(workers) resolves.
PoolSettled ==
  /\ pc = "batch"
  /\ active = 0
  /\ pc' = "settled"
  /\ UNCHANGED <<reportVars, toolVars, sourceVars, faults, emitted, poolFrame, index, active, finished, handed>>

PoolNext == PoolSpawn \/ PoolComplete \/ PoolSettled

PoolSpec == PoolInit /\ [][PoolNext]_vars

\* ------------------------------------------------------------------ claims
Proxies(list) == {r.proxy : r \in Range(list)}

\* C1: in memory and in every checkpoint written, no canonical string is in
\* both the working list and the failed list of one protocol bucket.
C1_WorkingFailedDisjoint ==
  \A t \in Types :
    /\ Proxies(results[t].working) \cap Proxies(results[t].failed) = {}
    /\ Proxies(disk.content[t].working) \cap Proxies(disk.content[t].failed) = {}

\* C2: each candidate of the to-test list is handed to testProxy at most once
\* at any moment of the batch, and exactly once when the batch has completed.
C2_HandedExactlyOnce ==
  /\ \A i \in DOMAIN handed : handed[i] <= 1
  /\ pc = "settled" => \A i \in DOMAIN handed : handed[i] = 1

\* A batch longer than CONCURRENCY has completed: workers have come back to
\* the shared index for the candidates beyond the first CONCURRENCY.
C2_Witness ==
  /\ pc = "settled"
  /\ Len(proxiesToTest) > CONCURRENCY
  /\ finished = Len(proxiesToTest)
  /\ handed[Len(proxiesToTest) - 1] = 1

\* C3: the number of probes in flight is at most
\* min(CONCURRENCY, number of candidates to test), with CONCURRENCY = 50.
C3_InFlightBounded ==
  /\ CONCURRENCY = 50
  /\ active <= (IF Len(proxiesToTest) < 50 THEN Len(proxiesToTest) ELSE 50)

\* The pool is at its limit of 50 probes in flight after a worker has come
\* back for a further candidate of a list longer than CONCURRENCY.
C3_Witness ==
  /\ pc = "batch"
  /\ Len(proxiesToTest) > CONCURRENCY
  /\ finished > 0
  /\ active = 50

\* Every worker of the batch has left its loop.
BatchDone ==
  /\ pc = "batch"
  /\ workers # <<>>
  /\ \A w \in DOMAIN workers : workers[w].pc = "done"

\* Worker w holds the result the testProxy call for its candidate returns.
HoldsVerdict(w) ==
  \/ workers[w].pc = "ret"
  \/ /\ workers[w].pc = "parsed"
     /\ ~(workers[w].res.success /\ workers[w].res.ip = currentPublicIp)

\* C4: every verdict, probed or replayed from the Probe Cache, carries the
\* canonical string of the candidate it was asked for, and when a batch has
\* completed every candidate of the protocol's list is in exactly one of the
\* Working and Failed sets under its own canonical string.
C4_VerdictUnderOwnCanonical ==
  /\ pc = "batch" =>
       \A w \in DOMAIN workers :
         HoldsVerdict(w) => workers[w].res.proxy = ProxyOf(w).normalized
  /\ BatchDone =>
       \A c \in Range(proxiesByType[TypeOrder[typeIdx]]) :
         (c.normalized \in workingSet) # (c.normalized \in failedSet)

NoDuplicates(list) ==
  \A i, j \in 1..Len(list) : list[i].proxy = list[j].proxy => i = j

\* C5: after any number of runs over any candidate sets, the working list
\* and the failed list of each protocol hold at most one record per
\* canonical string, in memory and in the checkpoint file.
C5_OneRecordPerCanonical ==
  \A t \in Types :
    /\ NoDuplicates(results[t].working)
    /\ NoDuplicates(results[t].failed)
    /\ NoDuplicates(disk.content[t].working)
    /\ NoDuplicates(disk.content[t].failed)

\* A later run replays from the Probe Cache a Working verdict for a canonical
\* string that an earlier run has recorded as Working.
C5_Witness ==
  /\ pc = "batch"
  /\ disk.exists
  /\ \E w \in DOMAIN workers :
       /\ workers[w].pc = "parsed"
       /\ workers[w].res.success
       /\ workers[w].res.ip # currentPublicIp
       /\ workers[w].res.proxy \in workingSet
       /\ workers[w].res.proxy \in Proxies(disk.content[TypeOrder[typeIdx]].working)

\* The run follows a full run over the same candidates, and the Probe Cache
\* entry of every candidate is fresh.
RepeatedRun ==
  /\ pc \in {"loop", "batch"}
  /\ lastRun.exists
  /\ lastRun.proxiesByType = proxiesByType
  /\ \A t \in Types : \A c \in Range(proxiesByType[t]) :
       /\ cache[cacheKey(c)].exists
       /\ cacheIsFresh(cache[cacheKey(c)].mtimeMs, now)

\* C6: a candidate already in the Working or Failed set loaded from the run
\* state is never passed to testProxy, and a second run over an unchanged
\* candidate set with fresh caches executes no external probe and leaves the
\* Working and Failed sets of every protocol as the first run left them.
C6_SecondRunIdle ==
  /\ pc = "batch" =>
       \A c \in Range(proxiesToTest) :
         c.normalized \notin (start.working \cup start.failed)
  /\ RepeatedRun =>
       /\ probes = 0
       /\ \A t \in Types :
            /\ Proxies(results[t].working) = Proxies(lastRun.results[t].working)
            /\ Proxies(results[t].failed) = Proxies(lastRun.results[t].failed)

\* C7: for a fixed candidate list, run state, Probe Cache and probe outcomes,
\* the Working and Failed sets at the end of a batch are those of the batch
\* whose probes complete one by one in list order, whatever the order in
\* which the concurrent probes completed.
C7_OrderIndependent ==
  BatchDone =>
    /\ workingSet = oneByOne(1, start).working
    /\ failedSet = oneByOne(1, start).failed

\* The probe of a candidate succeeded: curl exited with 0 and printed a valid
\* address that is not the caller's.
ProbeSucceeds(curl, ip) ==
  /\ curl.settled = "resolve"
  /\ curl.stdout \in ValidIps
  /\ curl.stdout # ip

\* A probe that did not succeed gives a Failed result for its own candidate;
\* at the end of the batch every candidate has been handed to testProxy, and
\* only candidates whose own probe did not succeed were added to Failed.
C8_FailureIsLocal ==
  /\ pc = "batch" =>
       \A w \in DOMAIN workers :
         (/\ workers[w].pc \in {"write", "ret"}
          /\ workers[w].path = "miss"
          /\ ~ProbeSucceeds(oracle[workers[w].cur + 1], currentPublicIp))
         => /\ ~workers[w].res.success
            /\ workers[w].res.proxy = ProxyOf(w).normalized
  /\ BatchDone =>
       /\ finished = Len(proxiesToTest)
       /\ \A i \in DOMAIN handed : handed[i] = 1
       /\ \A i \in 1..Len(proxiesToTest) :
            proxiesToTest[i].normalized \in (failedSet \ start.failed)
              => ~ProbeSucceeds(oracle[i], currentPublicIp)

\* C8: every protocol batch eventually completes whatever the outcome of
\* each probe; a probe that fails yields a Failed verdict for its candidate
\* only and every other candidate of the batch is still probed.
C8_BatchCompletes ==
  /\ []C8_FailureIsLocal
  /\ (pc = "batch") ~> (pc = "loop")

\* A batch of two candidates has completed in which one probe failed and the
\* other gave a Working verdict.
C8_Witness ==
  /\ pc = "loop"
  /\ typeIdx = Len(TypeOrder) + 1
  /\ Len(results["https"].working) = 1
  /\ Len(results["https"].failed) = 1
  /\ results["https"].failed[1].error = <<"spawn curl ENOENT">>

\* C9: on a Probe Cache miss the verdict is Working exactly when curl exited
\* with 0 and printed a valid IP address that differs from the caller's own;
\* a Working verdict records the address that was printed.
C9_MissVerdict ==
  pc = "batch" =>
    \A w \in DOMAIN workers :
      (workers[w].pc = "write" /\ workers[w].path = "miss") =>
        LET curl == oracle[workers[w].cur + 1]
            r == workers[w].res
        IN /\ r.success <=> (/\ curl.settled = "resolve"
                             /\ curl.stdout \in ValidIps
                             /\ curl.stdout # currentPublicIp)
           /\ r.success => r.ip = curl.stdout
           /\ r.proxy = ProxyOf(w).normalized

\* Two probes of one batch have settled on a cache miss: one printed the
\* caller's own address, the other a foreign one.
C9_Witness ==
  /\ pc = "batch"
  /\ \E w1, w2 \in DOMAIN workers :
       /\ workers[w1].pc = "write" /\ workers[w1].path = "miss"
       /\ workers[w2].pc = "write" /\ workers[w2].path = "miss"
       /\ oracle[workers[w1].cur + 1].stdout = currentPublicIp
       /\ ~workers[w1].res.success
       /\ workers[w2].res.success
       /\ workers[w2].res.ip # currentPublicIp

\* What testProxy returns is never Working with the caller's own address,
\* and a lookup that took the rewrite path returns Failed for its candidate
\* with a Failed entry in the Probe Cache.
C10_Returned ==
  pc = "batch" =>
    \A w \in DOMAIN workers :
      workers[w].pc = "ret" =>
        /\ ~(workers[w].res.success /\ workers[w].res.ip = currentPublicIp)
        /\ workers[w].path = "hit" =>
             /\ ~workers[w].res.success
             /\ workers[w].res.proxy = ProxyOf(w).normalized
             /\ cache[cacheKey(ProxyOf(w))].exists
             /\ ~cache[cacheKey(ProxyOf(w))].content.success

\* The step of a lookup that has read a fresh Working entry with the
\* caller's own address: it goes on to write a Failed result for its
\* candidate, it does not return.
C10_Rewrite ==
  \A w \in DOMAIN workers :
    (/\ pc = "batch"
     /\ workers[w].pc = "parsed"
     /\ workers[w].res.success
     /\ workers[w].res.ip = currentPublicIp
     /\ workers' # workers
     /\ workers'[w] # workers[w])
    => /\ workers'[w].pc = "write"
       /\ ~workers'[w].res.success
       /\ workers'[w].res.proxy = ProxyOf(w).normalized

C11_LookupStep ==
  \A w \in DOMAIN workers :
    (/\ pc = "batch"
     /\ workers[w].pc \in {"stat", "read"}
     /\ workers' # workers
     /\ workers'[w] # workers[w])
    => LET entry == cache[cacheKey(ProxyOf(w))]
           aged == now - entry.mtimeMs >= 18 * 60 * 60 * 1000
           probing == workers'[w].pc = "curl" /\ probes' = probes + 1
           missing == IF workers[w].pc = "stat"
                        THEN ~entry.exists \/ aged
                        ELSE ~entry.exists \/ entry.form # "json"
       IN /\ probing <=> missing
          /\ ~probing => /\ probes' = probes
                         /\ workers'[w].pc = IF workers[w].pc = "stat" THEN "read"
                                                                        ELSE "parsed"

\* An external probe is started by such a step only.
C11_ProbeStarts ==
  probes' # probes =>
    \/ probes' = 0
    \/ /\ probes' = probes + 1
       /\ \E w \in DOMAIN workers :
            workers[w].pc \in {"stat", "read"} /\ workers'[w].pc = "curl"

\* A call that has probed does not come back to the lookup, and a call that
\* returns a cached entry has not probed.
C11_OneProbePerCall ==
  pc = "batch" =>
    \A w \in DOMAIN workers :
      /\ workers[w].pc \in {"stat", "read", "parsed"} => workers[w].path # "miss"
      /\ workers[w].pc \in {"curl"} => workers[w].path = "miss"

IsProbeResult(r) == r.proxy # <<>>

\* C12: a fresh Probe Cache entry that is unreadable or whose content is not
\* a Probe Result is treated as a miss: what a lookup returns from the cache
\* and what is recorded in the run state is always a Probe Result, the
\* unusable entry being replaced by the verdict of a fresh probe.
C12_MalformedIsMiss ==
  /\ pc = "batch" =>
       \A w \in DOMAIN workers :
         (HoldsVerdict(w) /\ workers[w].path = "hit") => IsProbeResult(workers[w].res)
  /\ \A t \in Types :
       \A r \in Range(results[t].working) \cup Range(results[t].failed) :
         IsProbeResult(r)

\* C13: when a call of testProxy that performed a probe returns, whatever
\* the outcome of the probe, the candidate's Probe Cache entry holds exactly
\* the verdict the call returns.
C13_CacheHoldsVerdict ==
  pc = "batch" =>
    \A w \in DOMAIN workers :
      (workers[w].pc = "ret" /\ workers[w].path = "miss") =>
        /\ cache[cacheKey(ProxyOf(w))].exists
        /\ cache[cacheKey(ProxyOf(w))].form = "json"
        /\ cache[cacheKey(ProxyOf(w))].content = workers[w].res

\* C14: two distinct candidates of a protocol (different host or port) never
\* map to the same Probe Cache file, no two workers handle the same cache
\* entry for distinct candidates, and the entry a lookup reads for a candidate
\* never holds a verdict stored for another candidate.
C14_DistinctCacheFiles ==
  /\ \A t \in Types :
       \A c, d \in Range(proxiesByType[t]) :
         c.normalized # d.normalized => cacheKey(c) # cacheKey(d)
  /\ pc = "batch" =>
       \A v, w \in DOMAIN workers :
         (/\ workers[v].cur >= 0
          /\ workers[w].cur >= 0
          /\ cacheKey(ProxyOf(v)) = cacheKey(ProxyOf(w)))
           => ProxyOf(v).normalized = ProxyOf(w).normalized
  /\ pc = "batch" =>
       \A w \in DOMAIN workers :
         (workers[w].path = "hit" /\ IsProbeResult(workers[w].res))
           => workers[w].res.proxy = ProxyOf(w).normalized

\* The probe of worker w's candidate ran into runCurl's timer and was killed.
TimedOut(w) ==
  /\ workers[w].cur >= 0
  /\ workers[w].path = "miss"
  /\ oracle[workers[w].cur + 1].killed

\* The Failed records of this batch whose probe was killed by the timer.
TimedOutRecords ==
  {r \in Range(results[TypeOrder[typeIdx]].failed) :
     r.proxy \notin start.failed /\ r.error = <<"Process timed out">>}

\* The bucket getErrorType returns for a message that includes 'timeout'.
TimeoutBucket == ErrorBuckets[1].bucket

\* C15: a probe killed by the hard timeout gives the verdict Failed, the
\* Failed verdict is written to the candidate's Probe Cache file (where only
\* the write of another candidate can replace it), and every such failure
\* recorded in the batch is counted under the Timeout bucket of the error
\* histogram.
C15_TimeoutCounted ==
  pc = "batch" =>
    /\ \A w \in DOMAIN workers :
         (TimedOut(w) /\ workers[w].pc = "ret") =>
           /\ ~workers[w].res.success
           /\ cache[cacheKey(ProxyOf(w))].exists
           /\ \/ cache[cacheKey(ProxyOf(w))].content = workers[w].res
              \/ cache[cacheKey(ProxyOf(w))].content.proxy # workers[w].res.proxy
    /\ TimedOutRecords # {} =>
         /\ TimeoutBucket \in DOMAIN errorHistogram
         /\ errorHistogram[TimeoutBucket] >= Cardinality(TimedOutRecords)

\* ------------------------------------------------- the queue engine
\* The second implementation of the engine (the ES module): testProxy reads
\* and writes the Probe Cache with the synchronous fs calls, and
\* processProxiesWithQueue launches the calls from launchNext and handles
\* each through .then(onProxyTested).catch(onProxyTestError)
\* .finally(onProxyTestFinally).  workers[i] is the call for candidate i of
\* proxyObjs: "idle" (not launched), "curl" (awaiting runCurl), "then"
\* (fulfilled), "catch" (rejected), "finally", "done".

\* The buckets of the queue engine's getErrorType, in its order; the needles
\* are looked for in the message as it is.
QueueErrorBuckets ==
  <<
     [needle |->
        <<"T", "i", "m", "e", "o", "u", "t">>,
      bucket |->
        <<"T", "i", "m", "e", "o", "u", "t">>],
     [needle |->
        <<"C", "o", "n", "n", "e", "c", "t", "i", "o", "n", " ", "r", "e",
          "f", "u", "s", "e", "d">>,
      bucket |->
        <<"C", "o", "n", "n", "e", "c", "t", "i", "o", "n", " ", "r", "e",
          "f", "u", "s", "e", "d">>],
     [needle |->
        <<"r", "e", "s", "e", "t", " ", "b", "y", " ", "p", "e", "e", "r">>,
      bucket |->
        <<"C", "o", "n", "n", "e", "c", "t", "i", "o", "n", " ", "r", "e",
          "s", "e", "t">>],
     [needle |->
        <<"T", "L", "S", " ", "c", "o", "n", "n", "e", "c", "t", "i", "o",
          "n">>,
      bucket |->
        <<"T", "L", "S", " ", "e", "r", "r", "o", "r">>],
     [needle |->
        <<"S", "o", "c", "k", "e", "t", " ", "d", "i", "s", "c", "o", "n",
          "n", "e", "c", "t", "e", "d">>,
      bucket |->
        <<"S", "o", "c", "k", "e", "t", " ", "d", "i", "s", "c", "o", "n",
          "n", "e", "c", "t", "e", "d">>],
     [needle |->
        <<"D", "N", "S", " ", "l", "o", "o", "k", "u", "p", " ", "f", "a",
          "i", "l", "e", "d">>,
      bucket |->
        <<"D", "N", "S", " ", "l", "o", "o", "k", "u", "p", " ", "f", "a",
          "i", "l", "e", "d">>],
     [needle |->
        <<"p", "r", "o", "x", "y">>,
      bucket |->
        <<"P", "r", "o", "x", "y", " ", "e", "r", "r", "o", "r">>],
     [needle |->
        <<"P", "r", "o", "x", "y", " ", "r", "e", "s", "o", "l", "v", "e",
          "s", " ", "t", "o", " ", "c", "l", "i", "e", "n", "t", " ", "I",
          "P">>,
      bucket |->
        <<"P", "r", "o", "x", "y", " ", "r", "e", "s", "o", "l", "v", "e",
          "s", " ", "t", "o", " ", "c", "l", "i", "e", "n", "t", " ", "I",
          "P">>],
     [needle |->
        <<"E", "C", "O", "N", "N", "R", "E", "F", "U", "S", "E", "D">>,
      bucket |->
        <<"E", "C", "O", "N", "N", "R", "E", "F", "U", "S", "E", "D">>],
     [needle |->
        <<"I", "n", "v", "a", "l", "i", "d", " ", "I", "P", " ", "f", "o",
          "r", "m", "a", "t", " ", "r", "e", "c", "e", "i", "v", "e", "d">>,
      bucket |->
        <<"I", "n", "v", "a", "l", "i", "d", " ", "I", "P", " ", "f", "o",
          "r", "m", "a", "t">>] >>

\* processProxiesWithQueue.getErrorType of the queue engine.
queueFirstBucket[errorChars \in Seq(STRING), k \in Nat] ==
  IF k > Len(QueueErrorBuckets)
    THEN substring0[trim[splitColonFirst[errorChars]], 40]
    ELSE IF includes[errorChars, QueueErrorBuckets[k].needle]
           THEN QueueErrorBuckets[k].bucket
           ELSE queueFirstBucket[errorChars, k + 1]

queueGetErrorType(errorMsg) ==
  IF errorMsg = NoMessage \/ MessageChars[errorMsg] = <<>>
    THEN UnknownErrorBucket
    ELSE queueFirstBucket[MessageChars[errorMsg], 1]

\* The message of the error fs.writeFileSync throws when the write fails.
WriteErrorMessage == "ENOSPC: no space left on device, write"

\* onProxyTestError: the result recorded for a testProxy call that rejected.
errorResult(proxyObj, errMessage) ==
  failResult(proxyObj.normalized, <<"Internal test error: ", errMessage>>)

\* The body shared by onProxyTested and onProxyTestError: the sets, the
\* counters and the histogram after result is handled.
queueRecord(result) ==
  LET type == TypeOrder[typeIdx]
      same == [results |-> results, workingSet |-> workingSet, failedSet |-> failedSet,
               detected |-> detected, failed |-> failed,
               errorHistogram |-> errorHistogram]
  IN IF result.success
       THEN IF ~has(workingSet, result.proxy)
              THEN [same EXCEPT
                      !.results = [results EXCEPT ![type].working = Append(@, result)],
                      !.workingSet = workingSet \cup {result.proxy},
                      !.detected = detected + 1]
              ELSE same
       ELSE IF ~has(failedSet, result.proxy)
              THEN [same EXCEPT
                      !.results = [results EXCEPT ![type].failed = Append(@, result)],
                      !.failedSet = failedSet \cup {result.proxy},
                      !.failed = failed + 1,
                      !.errorHistogram =
                         bump(errorHistogram, queueGetErrorType(result.error))]
              ELSE same

\* testProxy of the queue engine from its call to its first await or its
\* return: q is the queue's state when launchNext calls it for candidate
\* i (counted from 0) of list.  A fresh entry that is read and parsed is
\* returned (a false positive is rewritten first); when the read, the parse
\* or the rewrite throws, and when there is no fresh entry, curl is spawned.
queueCall(q, list, i) ==
  LET proxyObj == list[i + 1]
      key == cacheKey(proxyObj)
      entry == q.cache[key]
      fresh == entry.exists /\ cacheIsFresh(entry.mtimeMs, now)
      rewritten == failResult(proxyObj.normalized, SelfResolutionMessage)
      spawned == [q EXCEPT !.workers[i + 1] = Worker("curl", i, "miss", NoResult),
                           !.probes = @ + 1]
  IN IF fresh /\ usable(entry)
       THEN IF isFalsePositive(entry.content, currentPublicIp)
              THEN IF "cache" \in faults
                     THEN spawned
                     ELSE [q EXCEPT !.cache[key] = File(now, rewritten),
                                    !.workers[i + 1] = Worker("then", i, "hit", rewritten)]
              ELSE [q EXCEPT !.workers[i + 1] = Worker("then", i, "hit", entry.content)]
       ELSE spawned

\* launchNext's while loop: candidates already in one of the sets are counted
\* as finished, the others are handed to testProxy, until CONCURRENCY calls
\* are active or the list is used up.
RECURSIVE launchLoop(_, _, _)
launchLoop(q, list, known) ==
  IF ~(q.active < CONCURRENCY /\ q.nextIndex < Len(list))
    THEN q
    ELSE LET i == q.nextIndex
             q1 == [q EXCEPT !.nextIndex = @ + 1]
         IN IF list[i + 1].normalized \in known
              THEN LET q2 == [q1 EXCEPT !.finished = @ + 1]
                   IN IF q2.finished >= Len(list) /\ q2.active = 0
                        THEN [q2 EXCEPT !.resolved = TRUE]
                        ELSE launchLoop(q2, list, known)
              ELSE launchLoop(queueCall([q1 EXCEPT !.active = @ + 1,
                                                   !.handed[i] = @ + 1],
                                        list, i),
                              list, known)

\* launchNext
launchNext(q, list, known) ==
  IF q.nextIndex >= Len(list) /\ q.active = 0
    THEN IF q.finished >= Len(list) THEN [q EXCEPT !.resolved = TRUE] ELSE q
    ELSE launchLoop(q, list, known)

\* The queue's state as launchNext finds it.
QueueState ==
  [nextIndex |-> index, active |-> active, finished |-> finished,
   workers |-> workers, cache |-> cache, probes |-> probes, handed |-> handed,
   resolved |-> FALSE]

\* The queue's variables after a step that leaves the queue in state q: when
\* the promise of processProxiesWithQueue is resolved (after the final
\* statistics are logged), detectProxies goes on with the next protocol.
QueueGoesOn(q, list, curls) ==
  /\ cache' = q.cache
  /\ probes' = q.probes
  /\ logInterval' = IF q.resolved THEN clearInterval("armed") ELSE "armed"
  /\ IF q.resolved
       THEN /\ emitted' = [emitted EXCEPT !.stats = @ + 1]
            /\ pc' = "loop"
            /\ typeIdx' = typeIdx + 1
            /\ proxiesToTest' = <<>>
            /\ index' = 0
            /\ active' = 0
            /\ finished' = 0
            /\ workers' = <<>>
            /\ oracle' = <<>>
            /\ handed' = <<>>
            /\ start' = NoStart
       ELSE /\ emitted' = emitted
            /\ pc' = "batch"
            /\ typeIdx' = typeIdx
            /\ proxiesToTest' = list
            /\ index' = q.nextIndex
            /\ active' = q.active
            /\ finished' = q.finished
            /\ workers' = q.workers
            /\ oracle' = curls
            /\ handed' = q.handed

\* detectProxies of the queue engine calls processProxiesWithQueue for the
\* next protocol that has candidates: the sets of the run state, the
\* counters, and the first launchNext.
QueueStart ==
  /\ pc = "loop"
  /\ typeIdx <= Len(TypeOrder)
  /\ LET type == TypeOrder[typeIdx]
         proxyObjs == proxiesByType[type]
         total == Len(proxyObjs)
         wSet == {r.proxy : r \in Range(results[type].working)}
         fSet == {r.proxy : r \in Range(results[type].failed)}
         q0 == [nextIndex |-> 0, active |-> 0, finished |-> 0,
                workers |-> [i \in 1..total |-> Worker("idle", i - 1, "none", NoResult)],
                cache |-> cache, probes |-> probes,
                handed |-> [i \in 0..(total - 1) |-> 0], resolved |-> FALSE]
         q == launchNext(q0, proxyObjs, wSet \cup fSet)
     IN /\ proxyObjs # <<>>
        /\ \E curls \in [1..total -> RunOutcomes] : QueueGoesOn(q, proxyObjs, curls)
        /\ workingSet' = wSet
        /\ failedSet' = fSet
        /\ start' = IF q.resolved THEN NoStart
                    ELSE [cache |-> cache, working |-> wSet, failed |-> fSet]
  /\ detected' = 0
  /\ failed' = 0
  /\ testedCountSinceSave' = 0
  /\ errorHistogram' = <<>>
  /\ UNCHANGED <<snapshot, engine, toolVars, sourceVars, faults, now, diskVars, returned, currentPublicIp, proxiesByType,
                 results, totalWorkingCount, totalFailedCount, lastRun>>

\* runCurl settles and testProxy goes on to its return: the result is written
\* with fs.writeFileSync and returned.  When the write throws inside the try
\* block the catch block builds a Failed result and writes again; the error
\* of a write in the catch block rejects the call.
QueueSettle(i) ==
  /\ pc = "batch"
  /\ workers[i].pc = "curl"
  /\ LET r == probeResult(proxiesToTest[i], currentPublicIp, oracle[i])
     IN IF "cache" \in faults
          THEN /\ workers' = [workers EXCEPT ![i].pc = "catch"]
               /\ cache' = cache
          ELSE /\ workers' = [workers EXCEPT ![i].pc = "then", ![i].res = r]
               /\ cache' = [cache EXCEPT ![cacheKey(proxiesToTest[i])] = File(now, r)]
  /\ UNCHANGED <<reportVars, toolVars, sourceVars, faults, emitted, now, diskVars, pc, returned, runVars, setVars, countVars,
                 proxiesToTest, index, active, oracle, handed, histVars>>

\* The sets, counters and histogram after result is recorded.
QueueRecorded(result) ==
  LET m == queueRecord(result)
  IN /\ results' = m.results
     /\ workingSet' = m.workingSet
     /\ failedSet' = m.failedSet
     /\ detected' = m.detected
     /\ failed' = m.failed
     /\ errorHistogram' = m.errorHistogram
     /\ testedCountSinceSave' = testedCountSinceSave + 1

\* onProxyTested
onProxyTested(i) ==
  /\ pc = "batch"
  /\ workers[i].pc = "then"
  /\ QueueRecorded(workers[i].res)
  /\ workers' = [workers EXCEPT ![i].pc = "finally"]
  /\ UNCHANGED <<reportVars, toolVars, sourceVars, faults, emitted, now, cache, diskVars, pc, returned, runVars, finished,
                 totalWorkingCount, totalFailedCount, proxiesToTest, index, active,
                 oracle, handed, histVars>>

\* onProxyTestError
onProxyTestError(i) ==
  /\ pc = "batch"
  /\ workers[i].pc = "catch"
  /\ QueueRecorded(errorResult(proxiesToTest[i], WriteErrorMessage))
  /\ workers' = [workers EXCEPT
                   ![i].pc = "finally",
                   ![i].res = errorResult(proxiesToTest[i], WriteErrorMessage)]
  /\ UNCHANGED <<reportVars, toolVars, sourceVars, faults, emitted, now, cache, diskVars, pc, returned, runVars, finished,
                 totalWorkingCount, totalFailedCount, proxiesToTest, index, active,
                 oracle, handed, histVars>>

\* onProxyTestFinally: the counters, the periodic checkpoint, and either the
\* final statistics and the resolution of the promise or launchNext.
onProxyTestFinally(i) ==
  /\ pc = "batch"
  /\ workers[i].pc = "finally"
  /\ LET save == testedCountSinceSave >= SAVE_INTERVAL
         q0 == [QueueState EXCEPT !.active = @ - 1, !.finished = @ + 1,
                                  !.workers[i].pc = "done"]
         q == IF q0.finished >= Len(proxiesToTest)
                THEN [q0 EXCEPT !.resolved = TRUE]
                ELSE launchNext(q0, proxiesToTest, workingSet \cup failedSet)
     IN /\ disk' = IF save THEN written("outputs", disk, saveResults(results)) ELSE disk
        /\ uniqueIpsFile' = IF save
                             THEN written("outputs", uniqueIpsFile,
                                          saveUniqueIpResults(results))
                             ELSE uniqueIpsFile
        /\ testedCountSinceSave' = IF save THEN 0 ELSE testedCountSinceSave
        /\ QueueGoesOn(q, proxiesToTest, oracle)
        /\ start' = IF q.resolved THEN NoStart ELSE start
  /\ UNCHANGED <<snapshot, engine, toolVars, sourceVars, faults, now, returned, currentPublicIp, proxiesByType, setVars,
                 detected, failed, totalWorkingCount, totalFailedCount, errorHistogram,
                 lastRun>>

QueueStep ==
  \E i \in DOMAIN workers :
    QueueSettle(i) \/ onProxyTested(i) \/ onProxyTestError(i) \/ onProxyTestFinally(i)

\* Runs of the queue engine one after the other, with a results_cache/ that
\* rejects writes at times.
QueueNext ==
  \/ StartRun
  \/ SkipEmptyType
  \/ QueueStart
  \/ QueueStep
  \/ FinishRun
  \/ Exit
  \/ CacheFault

QueueSpec == Init /\ [][QueueNext]_vars

\* The bucket both engines name for a proxy that answers with the caller's
\* own address.
SelfResolutionBucket == ErrorBuckets[7].bucket

\* The Failed records of this batch for self-resolution.
SelfResolutionRecords ==
  {r \in Range(results[TypeOrder[typeIdx]].failed) :
     r.proxy \notin start.failed /\ r.error = SelfResolutionMessage}

\* C16: in both engines, a probe that returns the caller's own public
\* address gives the verdict Failed, and every such failure recorded in the
\* batch is counted in the error histogram under 'Proxy resolves to client
\* IP' and under no other bucket.
C16_SelfResolutionBucket ==
  pc = "batch" =>
    /\ \A i \in DOMAIN workers :
         (/\ workers[i].pc \in {"then", "ret"}
          /\ workers[i].path = "miss"
          /\ oracle[workers[i].cur + 1].settled = "resolve"
          /\ oracle[workers[i].cur + 1].stdout = currentPublicIp)
           => ~workers[i].res.success
    /\ SelfResolutionRecords # {} =>
         /\ SelfResolutionBucket \in DOMAIN errorHistogram
         /\ errorHistogram[SelfResolutionBucket] >= Cardinality(SelfResolutionRecords)

\* ------------------------------------------------- periodic checkpoints
\* Batches of processProxiesWithQueue long enough for the periodic
\* checkpoint.  As in the worker pool specification the workers are kept as
\* the shared variables index, active and finished.  The probes of one batch
\* all settle the same way, so the candidates in flight are interchangeable
\* and the k-th testProxy call to return is named candidate k.

\* The decimal digits of n.
RECURSIVE Decimal(_)
Decimal(n) ==
  IF n < 10
    THEN <<<<"0", "1", "2", "3", "4", "5", "6", "7", "8", "9">>[n + 1]>>
    ELSE Decimal(n \div 10) \o Decimal(n % 10)

\* Candidate i of a long socks5 feed: socks5://10.0.<i div 256>.<i mod 256>:1080.
Numbered(i) ==
  ProxyObj("socks5",
           <<"1", "0", ".", "0", ".">> \o Decimal(i \div 256) \o <<".">> \o Decimal(i % 256),
           <<"1", "0", "8", "0">>)

BatchTotals == {SAVE_INTERVAL - 1, SAVE_INTERVAL, SAVE_INTERVAL + 1, MaxBatchTotal}

CheckpointInit ==
  /\ now = 0
  /\ disk = NoResultsFile
  /\ uniqueIpsFile = NoIpsFile
  /\ pc = "spawn"
  /\ returned = "none"
  /\ currentPublicIp \in ValidIps
  /\ results = getInitialResults
  /\ typeIdx = 1
  /\ \E total \in BatchTotals :
       /\ proxiesToTest = [i \in 1..total |-> Numbered(i)]
       /\ \E curl \in RunOutcomes : oracle = [i \in 1..total |-> curl]
  /\ proxiesByType = [t \in Types |-> IF t = TypeOrder[1] THEN proxiesToTest ELSE <<>>]
  /\ cache = [k \in {cacheKey(c) : c \in Range(proxiesToTest)} |-> NoFile]
  /\ workingSet = {}
  /\ failedSet = {}
  /\ index = 0
  /\ active = 0
  /\ finished = 0
  /\ detected = 0
  /\ failed = 0
  /\ totalWorkingCount = 0
  /\ totalFailedCount = 0
  /\ testedCountSinceSave = 0
  /\ errorHistogram = <<>>
  /\ workers = <<>>
  /\ handed = [i \in 0..(Len(proxiesToTest) - 1) |-> 0]
  /\ probes = 0
  /\ start = NoStart
  /\ lastRun = NoRun
  /\ emitted = NoneEmitted
  /\ faults = {}
  /\ NoSources
  /\ NoReporter
  /\ NoTools

\* The workers are created; each claims an index and calls testProxy, which
\* finds no cache entry and spawns curl.
CheckpointSpawn ==
  /\ pc = "spawn"
  /\ index' = spawnIndex(Len(proxiesToTest))
  /\ active' = spawnActive(Len(proxiesToTest))
  /\ handed' = spawnHanded(Len(proxiesToTest))
  /\ probes' = spawnActive(Len(proxiesToTest))
  /\ pc' = "batch"
  /\ logInterval' = "armed"
  /\ UNCHANGED <<snapshot, engine, toolVars, sourceVars, faults, emitted, now, cache, diskVars, returned, runVars, setVars,
                 detected, failed, totalWorkingCount, totalFailedCount,
                 testedCountSinceSave, errorHistogram, proxiesToTest, workers, oracle,
                 start, lastRun, finished>>

\* A testProxy call returns: the worker's loop from the cache write of
\* testProxy through recordResult and the finally block (persistIfNeeded) to
\* the next claim and the curl of the next call.
CheckpointComplete ==
  /\ pc = "batch"
  /\ active > 0
  /\ LET k == finished + 1
         result == probeResult(proxiesToTest[k], currentPublicIp, oracle[k])
         m == recordResult(result)
         save == persistIfNeeded(FALSE, m.testedCountSinceSave)
     IN /\ cache' = [cache EXCEPT ![cacheKey(proxiesToTest[k])] =
                        written("cache", @, File(now, result))]
        /\ results' = m.results
        /\ workingSet' = m.workingSet
        /\ failedSet' = m.failedSet
        /\ detected' = m.detected
        /\ failed' = m.failed
        /\ totalWorkingCount' = m.totalWorkingCount
        /\ totalFailedCount' = m.totalFailedCount
        /\ errorHistogram' = m.errorHistogram
        /\ testedCountSinceSave' = IF save THEN 0 ELSE m.testedCountSinceSave
        /\ disk' = IF save THEN written("outputs", disk, saveResults(m.results)) ELSE disk
        /\ uniqueIpsFile' = IF save
                             THEN written("outputs", uniqueIpsFile,
                                          saveUniqueIpResults(m.results))
                             ELSE uniqueIpsFile
  /\ probes' = IF index < Len(proxiesToTest) THEN probes + 1 ELSE probes
  /\ NextClaim(Len(proxiesToTest))
  /\ UNCHANGED <<reportVars, toolVars, sourceVars, faults, emitted, now, pc, returned, runVars, proxiesToTest, workers,
                 oracle, start, lastRun>>

\* Promise.all(workers) resolves: the forced checkpoint and the final
\* statistics.
CheckpointSettled ==
  /\ pc = "batch"
  /\ active = 0
  /\ disk' = written("outputs", disk, saveResults(results))
  /\ uniqueIpsFile' = written("outputs", uniqueIpsFile, saveUniqueIpResults(results))
  /\ testedCountSinceSave' = 0
  /\ emitted' = [forced |-> emitted.forced + 1, stats |-> emitted.stats + 1]
  /\ pc' = "settled"
  /\ logInterval' = clearInterval(logInterval)
  /\ UNCHANGED <<snapshot, engine, toolVars, sourceVars, faults, now, cache, returned, runVars, setVars, detected, failed,
                 totalWorkingCount, totalFailedCount, errorHistogram, batchVars,
                 histVars, finished>>

CheckpointNext == CheckpointSpawn \/ CheckpointComplete \/ CheckpointSettled

CheckpointSpec == CheckpointInit /\ [][CheckpointNext]_vars

\* The number of records of a run state.
Recorded(res) ==
  Len(res["socks5"].working) + Len(res["socks5"].failed)
    + Len(res["socks4"].working) + Len(res["socks4"].failed)
    + Len(res["http"].working) + Len(res["http"].failed)
    + Len(res["https"].working) + Len(res["https"].failed)

\* The verdicts recorded in memory that the last checkpoint does not hold.
MissingFromCheckpoint == Recorded(results) - Recorded(loadResults(disk))

\* A worker's completion step: recordResult and the finally block.
CompletionStep == finished' = finished + 1

BatchesCompleted ==
  Cardinality({k \in 1..(typeIdx - 1) :
                 k <= Len(TypeOrder) /\ proxiesByType[TypeOrder[k]] # <<>>})

\* C18: when detectProxies is back at its for loop, every call of
\* processProxiesWithQueue of this run that has returned has written one
\* forced checkpoint and emitted one final statistics snapshot.
C18_ForcedCheckpointPerBatch ==
  pc = "loop" =>
    /\ emitted.forced = BatchesCompleted
    /\ emitted.stats = BatchesCompleted

\* ------------------------------------------------ checkpoint failures
\* outputs/ starts or stops rejecting writes (a full disk, a directory made
\* read-only): saveResults and saveUniqueIpResults log the error and return.
OutputFault ==
  /\ faults' = IF "outputs" \in faults THEN faults \ {"outputs"}
                                       ELSE faults \cup {"outputs"}
  /\ UNCHANGED <<reportVars, toolVars, sourceVars, emitted, now, cache, diskVars, pc, returned, runVars, setVars, countVars,
                 batchVars, histVars>>

\* A batch of the checkpoint specification with one candidate more than
\* SAVE_INTERVAL, with checkpoint writes that may fail.  The event loop runs every continuation that is ready and
\* every curl settles, so the steps of the batch are taken when they stay
\* enabled.
FaultInit ==
  /\ CheckpointInit
  /\ Len(proxiesToTest) = SAVE_INTERVAL + 1

FaultNext == CheckpointNext \/ OutputFault

FaultSpec ==
  /\ FaultInit
  /\ [][FaultNext]_vars
  /\ WF_vars(CheckpointNext)

\* C19: whether or not the checkpoint writes fail, the batch runs to its
\* end with every candidate probed and recorded; a step never removes a
\* record from the run state in memory, and a completion adds exactly one;
\* and every checkpoint that is written holds the whole run state in memory,
\* the verdicts of the checkpoints that failed included.
C19_CheckpointFailureHarmless ==
  /\ <>(pc = "settled" /\ Recorded(results) = Len(proxiesToTest))
  /\ [][/\ \A t \in Types :
            /\ Range(results[t].working) \subseteq Range(results'[t].working)
            /\ Range(results[t].failed) \subseteq Range(results'[t].failed)
        /\ CompletionStep => Recorded(results') = Recorded(results) + 1
        /\ disk' # disk => (disk'.exists /\ disk'.content = results')]_vars

\* The write of the first periodic checkpoint failed, and the workers go on
\* probing.
C19_Witness ==
  /\ pc = "batch"
  /\ finished = SAVE_INTERVAL
  /\ ~disk.exists
  /\ testedCountSinceSave = 0
  /\ active > 0

\* ------------------------------------------------------- the fatal case
\* detectProxies returns without a result.
AbortStep == pc = "idle" /\ pc' = "returned" /\ returned' = "aborted"

\* C20: a run goes past the lookup of the caller's public address only with
\* a valid address; a run that aborts has loaded no source and issued no
\* probe, and its abort leaves proxy_results.json, unique_working_ips.txt
\* and the Probe Cache as they were.
C20_AbortLeavesStateAlone ==
  /\ [](pc \in {"loop", "batch"} => isValidIp(currentPublicIp))
  /\ []((pc = "returned" /\ returned = "aborted") =>
          /\ probes = 0
          /\ proxiesByType = [t \in Types |-> <<>>]
          /\ proxiesToTest = <<>>)
  /\ [][AbortStep => /\ cache' = cache
                     /\ disk' = disk
                     /\ uniqueIpsFile' = uniqueIpsFile
                     /\ probes' = probes]_vars

\* A run has aborted over the checkpoint and the Probe Cache entries that an
\* earlier run left.
C20_Witness ==
  /\ pc = "returned"
  /\ returned = "aborted"
  /\ disk.exists
  /\ \E k \in DOMAIN cache : cache[k].exists

\* ----------------------------------------------------------- source lines
\* The line functions of helpers.js work on strings: a string is the
\* sequence of its characters.

\* JavaScript's null and undefined.
Null == "<null>"

\* The character class [a-zA-Z0-9._-] of a host.
HostChars == AlphaNumeric \cup {".", "-", "_"}

\* String.prototype.startsWith and endsWith
startsWith(s, prefix) ==
  Len(s) >= Len(prefix) /\ SubSeq(s, 1, Len(prefix)) = prefix
endsWith(s, suffix) ==
  Len(s) >= Len(suffix) /\ SubSeq(s, Len(s) - Len(suffix) + 1, Len(s)) = suffix

\* String.prototype.indexOf(c) + 1: the position of the first c in s, or 0.
firstIndexOf(s, c) ==
  IF \E i \in 1..Len(s) : s[i] = c
    THEN CHOOSE i \in 1..Len(s) : s[i] = c /\ \A j \in 1..(i - 1) : s[j] # c
    ELSE 0

\* s.split(c)[0] and s.split(c)[1] (undefined, here Null, when s has no c)
splitFirst(s, c) ==
  IF firstIndexOf(s, c) = 0 THEN s ELSE SubSeq(s, 1, firstIndexOf(s, c) - 1)
splitSecond(s, c) ==
  IF firstIndexOf(s, c) = 0
    THEN Null
    ELSE splitFirst(SubSeq(s, firstIndexOf(s, c) + 1, Len(s)), c)

\* hostport.replace(/\/+$/, '')
stripSlashes[s \in Seq(STRING)] ==
  IF s # <<>> /\ s[Len(s)] = "/" THEN stripSlashes[SubSeq(s, 1, Len(s) - 1)] ELSE s

\* /^\d{lo,hi}$/.test(s)
isDigits(s, lo, hi) ==
  /\ Len(s) >= lo
  /\ Len(s) <= hi
  /\ \A i \in 1..Len(s) : s[i] \in Digits

\* The text a protocol, or null, leaves in a template literal.
typeText(type) == IF type = Null THEN <<"n", "u", "l", "l">> ELSE TypeChars[type]

\* The text of `${port || 'undefined'}`.
orUndefined(s) ==
  IF s = Null \/ s = <<>> THEN <<"u", "n", "d", "e", "f", "i", "n", "e", "d">> ELSE s

\* trimmed.match(/^(socks5|socks4|http|https):\/\/(.+)$/i): the protocol,
\* lower-cased, and the rest; matched is FALSE when there is no match.
protocolMatch(trimmed) ==
  LET lower == toLowerCase[trimmed]
      hits == {t \in Types :
                 /\ startsWith(lower, TypeChars[t] \o <<":", "/", "/">>)
                 /\ Len(trimmed) > Len(TypeChars[t]) + 3}
  IN IF hits = {}
       THEN [matched |-> FALSE, type |-> Null, rest |-> <<>>]
       ELSE LET t == CHOOSE t \in hits : TRUE
            IN [matched |-> TRUE, type |-> t,
                rest |-> SubSeq(trimmed, Len(TypeChars[t]) + 4, Len(trimmed))]

\* hostport.match(/^([a-zA-Z0-9\.\-\_]+):(\d{2,5})$/)
hpMatch(hostport) ==
  LET i == firstIndexOf(hostport, ":")
      host == SubSeq(hostport, 1, i - 1)
      port == SubSeq(hostport, i + 1, Len(hostport))
  IN IF /\ i > 1
        /\ \A k \in 1..Len(host) : host[k] \in HostChars
        /\ isDigits(port, 2, 5)
       THEN [matched |-> TRUE, host |-> host, port |-> port]
       ELSE [matched |-> FALSE, host |-> <<>>, port |-> <<>>]

\* What normalizeProxyLine returns for a line it rejects (null).
NoCandidate ==
  [ok |-> FALSE, type |-> Null, host |-> <<>>, port |-> <<>>, normalized |-> <<>>]

\* A candidate whose normalized string lacks the slashes of type://host:port.
candidateOf_NoSlashes(type, host, port) ==
  [ok |-> TRUE, type |-> type, host |-> host, port |-> port,
   normalized |-> typeText(type) \o <<":">> \o host \o <<":">> \o port]
\* The object normalizeProxyLine returns for a line it accepts:
\* { type, host, port, normalized }.
candidateOf(type, host, port) ==
  [ok |-> TRUE, type |-> type, host |-> host, port |-> port,
   normalized |-> typeText(type) \o <<":", "/", "/">> \o host \o <<":">> \o port]

\* normalizeProxyLine(line, typeHint)
normalizeProxyLine(line, typeHint) ==
  LET trimmed == trim[line]
      match == protocolMatch(trimmed)
      type == IF match.matched THEN match.type ELSE typeHint
      hostport == stripSlashes[IF match.matched THEN match.rest ELSE trimmed]
      hp == hpMatch(hostport)
  IN IF trimmed = <<>> \/ ~hp.matched
       THEN NoCandidate
       ELSE candidateOf(type, hp.host, hp.port)

\* COMMENT_PREFIXES
COMMENT_PREFIXES == {<<"#">>, <<"/", "/">>, <<";">>}

\* isCommentLine
isCommentLine(line) ==
  \/ trim[line] = <<>>
  \/ \E prefix \in COMMENT_PREFIXES : startsWith(trim[line], prefix)

\* /^dest_ip\s*,/i.test(trimmed)
isCsvHeader(trimmed) ==
  /\ startsWith(toLowerCase[trimmed], <<"d", "e", "s", "t", "_", "i", "p">>)
  /\ startsWith(trimLeft[SubSeq(trimmed, 8, Len(trimmed))], <<",">>)

\* The objects convertSourceLine returns: { skip: true }, { error, raw } and
\* { value, raw }.  A field that is not set is FALSE, Null or empty.
SkipLine ==
  [skip |-> TRUE, error |-> Null, detail |-> <<>>, hasValue |-> FALSE,
   value |-> <<>>, raw |-> <<>>]
ErrorLine(error, detail, raw) ==
  [skip |-> FALSE, error |-> error, detail |-> detail, hasValue |-> FALSE,
   value |-> <<>>, raw |-> raw]
ValueLine(value, raw) ==
  [skip |-> FALSE, error |-> Null, detail |-> <<>>, hasValue |-> TRUE,
   value |-> value, raw |-> raw]

\* lowerSource.endsWith('.csv')
isCsvSource(sourceUrl) == endsWith(toLowerCase[sourceUrl], <<".", "c", "s", "v">>)

\* convertSourceLine, the branch of a .csv source.
csvRow(trimmed) ==
  LET hasColumns == firstIndexOf(trimmed, ",") > 0
      host == trim[splitFirst(trimmed, ",")]
      port == IF hasColumns THEN trim[splitSecond(trimmed, ",")] ELSE <<>>
  IN IF isCsvHeader(trimmed) THEN SkipLine
     ELSE IF ~hasColumns THEN ErrorLine("CSV row missing columns", <<>>, trimmed)
     ELSE IF host = <<>> THEN ErrorLine("CSV row missing dest_ip value", <<>>, trimmed)
     ELSE IF ~isDigits(port, 1, 5)
            THEN ErrorLine("CSV row has invalid dest_port value", orUndefined(port),
                           trimmed)
     ELSE ValueLine(host \o <<":">> \o port, trimmed)

\* convertSourceLine(line, typeHint, sourceUrl)
convertSourceLine(line, typeHint, sourceUrl) ==
  LET trimmed == trim[line]
  IN IF trimmed = <<>> THEN SkipLine
     ELSE IF isCsvSource(sourceUrl) THEN csvRow(trimmed)
     ELSE IF isCommentLine(trimmed) THEN SkipLine
     ELSE ValueLine(trimmed, trimmed)

\* What explainNormalizationFailure returns: the reason, and the text the
\* reason quotes.  NoReason stands for a call that was not made.
Reason(reason, detail) == [reason |-> reason, detail |-> detail]
NoReason == Reason(Null, <<>>)

\* explainNormalizationFailure(line, typeHint)
explainNormalizationFailure(line, typeHint) ==
  LET trimmed == trim[line]
      match == protocolMatch(trimmed)
      type == IF match.matched THEN match.type ELSE typeHint
      hostPort == stripSlashes[IF match.matched THEN match.rest ELSE trimmed]
      hostPart == splitFirst(hostPort, ":")
      portPart == splitSecond(hostPort, ":")
  IN IF trimmed = <<>> THEN Reason("Line is empty after trimming", <<>>)
     ELSE IF ~match.matched /\ type = Null
            THEN Reason("Missing protocol prefix and no type hint supplied", <<>>)
     ELSE IF firstIndexOf(hostPort, ":") = 0
            THEN Reason("Missing port separator (:)", <<>>)
     ELSE IF portPart = <<>> \/ ~isDigits(portPart, 2, 5)
            THEN Reason("Invalid port segment", orUndefined(portPart))
     ELSE IF hostPart = <<>> THEN Reason("Host portion is empty", <<>>)
     ELSE IF \E k \in 1..Len(hostPart) : hostPart[k] \notin HostChars
            THEN Reason("Host contains unsupported characters", hostPart)
     ELSE Reason("Unknown failure during normalization", <<>>)

\* ----------------------------------------------------- lines of the feeds
\* The lines the line functions are given: a protocol prefix or a comment
\* marker, a host, a separator, a port and an ending, and the header rows,
\* comment lines and blank lines of the feeds.
\* What a line begins with.
LinePrefixes ==
  {<<>>,
   <<"s", "o", "c", "k", "s", "5", ":", "/", "/">>,
   <<"H", "T", "T", "P", ":", "/", "/">>,
   <<"f", "t", "p", ":", "/", "/">>,
   <<"#">>}
\* The host of a line.
LineHosts ==
  {<<"1", ".", "2", ".", "3", ".", "4">>,
   <<"a", "_", "b", "-", "c", ".", "i", "o">>,
   <<>>,
   <<"h", "$", "t">>}
\* What stands between host and port.
LineSeparators ==
  {<<":">>,
   <<",">>,
   <<>>,
   <<":", "8", "0", ":">>}
\* The port of a line.
LinePorts ==
  {<<"8", "0">>,
   <<"8">>,
   <<"6", "5", "5", "3", "5">>,
   <<"9", "9", "9", "9", "9">>,
   <<"8", "a">>,
   <<>>}
\* What a line ends with.
LineEndings ==
  {<<>>,
   <<"/">>,
   <<",", "x">>}
\* Blank lines, header rows, comment lines, and a row with blanks.
SpecialLines ==
  {<<>>,
   <<" ">>,
   <<"d", "e", "s", "t", "_", "i", "p", ",", "d", "e", "s", "t", "_", "p",
     "o", "r", "t">>,
   <<"D", "E", "S", "T", "_", "I", "P", " ", ",", " ", "p", "o", "r", "t">>,
   <<"/", "/", " ", "l", "i", "s", "t">>,
   <<";", "l", "i", "s", "t">>,
   <<" ", "9", ".", "9", ".", "9", ".", "9", " ", ",", " ", "3", "1", "2",
     "8", " ">>}
Lines ==
  {prefix \o host \o separator \o port \o ending :
     prefix \in LinePrefixes, host \in LineHosts, separator \in LineSeparators,
     port \in LinePorts, ending \in LineEndings}
    \cup SpecialLines

\* The protocol hints: the protocol of the list a line comes from, or none.
Hints == {Null, "socks5", "http"}

\* A plain list and a .csv feed.
LineSources ==
  {<<"f", "e", "e", "d", "/", "s", "o", "c", "k", "s", "5", ".", "t", "x",
     "t">>,
   <<"f", "e", "e", "d", "/", "A", "L", "L", "_", "P", "R", "O", "X", "Y",
     "_", "L", "i", "s", "t", "s", ".", "c", "s", "v">>}

\* --------------------------------------------------- the line functions run
\* text holds the arguments; reply holds what the calls returned so far.
NoReply ==
  [step |-> "start", conversion |-> SkipLine, result |-> NoCandidate,
   reason |-> NoReason, again |-> NoCandidate]

LineInit ==
  /\ now = 0
  /\ ProcessStart
  /\ feeds = <<>>
  /\ sourceCache = <<>>
  /\ loads = <<>>
  /\ loaded = <<>>
  /\ text \in [line : Lines, typeHint : Hints, sourceUrl : LineSources]
  /\ reply = NoReply
  /\ NoReporter
  /\ NoTools

lineFrame ==
  <<now, cache, diskVars, pc, returned, runVars, setVars, countVars, batchVars,
    histVars, emitted, faults, feeds, sourceCache, loads, loaded, text,
    reportVars, toolVars>>

\* One line of a source, as validateNormalizeProxyLine handles it: stage 1,
\* then stage 2 on the value, then the explanation of a rejected value.
ValidateLine ==
  /\ reply.step = "start"
  /\ text.typeHint # Null
  /\ LET conversion == convertSourceLine(text.line, text.typeHint, text.sourceUrl)
         result == normalizeProxyLine(conversion.value, text.typeHint)
     IN reply' =
          IF conversion.skip \/ conversion.error # Null
            THEN [NoReply EXCEPT !.step = "validated", !.conversion = conversion]
            ELSE [NoReply EXCEPT
                    !.step = "validated",
                    !.conversion = conversion,
                    !.result = result,
                    !.reason = IF result.ok THEN NoReason
                               ELSE explainNormalizationFailure(conversion.value,
                                                                text.typeHint)]
  /\ UNCHANGED lineFrame

\* normalizeProxyLine(test) and normalizeProxyLine(line, type): a token is
\* normalized as it stands.
NormalizeToken ==
  /\ reply.step = "start"
  /\ reply' = [NoReply EXCEPT !.step = "normalized",
                              !.result = normalizeProxyLine(text.line, text.typeHint)]
  /\ UNCHANGED lineFrame

\* The normalized string of a candidate is normalized once more, with the
\* hint the candidate was made with.
Renormalize ==
  /\ reply.step = "normalized"
  /\ reply.result.ok
  /\ text.typeHint # Null
  /\ reply' = [reply EXCEPT !.step = "renormalized",
                            !.again = normalizeProxyLine(reply.result.normalized,
                                                         text.typeHint)]
  /\ UNCHANGED lineFrame

\* A token normalizeProxyLine rejected is explained.
ExplainToken ==
  /\ reply.step = "normalized"
  /\ ~reply.result.ok
  /\ reply' = [reply EXCEPT !.step = "explained",
                            !.reason = explainNormalizationFailure(text.line,
                                                                   text.typeHint)]
  /\ UNCHANGED lineFrame

LineNext == ValidateLine \/ NormalizeToken \/ Renormalize \/ ExplainToken

LineSpec == LineInit /\ [][LineNext]_vars

\* --------------------------------------------------- claims about the lines
\* C25: for every token normalizeProxyLine accepts with a protocol hint, be
\* it protocol://host:port or a bare host:port, normalizing the normalized
\* string again with the same hint yields the same normalized string.
C25_NormalizeIdempotent ==
  reply.step = "renormalized" =>
    /\ reply.again.ok
    /\ reply.again.normalized = reply.result.normalized

\* A bare host:port was normalized with the hint socks5, and once more.
C25_Witness ==
  /\ reply.step = "renormalized"
  /\ text.line = <<"1", ".", "2", ".", "3", ".", "4", ":", "8", "0">>
  /\ text.typeHint = "socks5"
  /\ reply.result.normalized =
       <<"s", "o", "c", "k", "s", "5", ":", "/", "/",
         "1", ".", "2", ".", "3", ".", "4", ":", "8", "0">>
  /\ reply.again.normalized = reply.result.normalized

\* C26: for every line without a protocol prefix, normalizeProxyLine called
\* without a hint returns no candidate, a well-formed host:port included.
C26_NoHintNoCandidate ==
  (/\ reply.step = "normalized"
   /\ text.typeHint = Null
   /\ ~protocolMatch(trim[text.line]).matched)
    => ~reply.result.ok

\* The number a string of digits denotes.
RECURSIVE toNumber(_)
toNumber(s) ==
  IF s = <<>> THEN 0
  ELSE 10 * toNumber(SubSeq(s, 1, Len(s) - 1))
         + (CHOOSE d \in 0..9 : Decimal(d) = <<s[Len(s)]>>)

\* C27: every candidate normalizeProxyLine returns has a port in 0..65535; a
\* token whose port lies outside that range yields no candidate.
C27_PortIsUint16 ==
  (reply.step = "normalized" /\ reply.result.ok)
    => toNumber(reply.result.port) \in 0..65535

\* C28: convertSourceLine signals skip for every blank line and every line
\* that begins with a comment marker (#, // or ;), whatever the shape of the
\* source, plain list or .csv feed; the line is neither a value nor an error.
C28_CommentsSkipped ==
  (/\ reply.step = "validated"
   /\ \/ trim[text.line] = <<>>
      \/ startsWith(trim[text.line], <<"#">>)
      \/ startsWith(trim[text.line], <<"/", "/">>)
      \/ startsWith(trim[text.line], <<";">>))
    => /\ reply.conversion.skip
       /\ reply.conversion.error = Null
       /\ ~reply.conversion.hasValue

\* The columns of a row of a .csv source.
CsvColumns(row) ==
  [count |-> IF firstIndexOf(row, ",") = 0 THEN 1 ELSE 2,
   host |-> trim[splitFirst(row, ",")],
   port |-> IF firstIndexOf(row, ",") = 0 THEN <<>> ELSE trim[splitSecond(row, ",")]]

\* C29: for a .csv source convertSourceLine returns exactly one of skip,
\* error and value: the header row dest_ip,... is skipped; a row with fewer
\* than two columns or a port column that is no number is an error with a
\* reason and the raw line; every other row host,port,... yields the value
\* host:port, which stage 2 turns into a candidate of the hinted protocol.
\* (A row whose host column is empty is no row host,port,...: it is only
\* required not to be skipped.)
C29_CsvConversion ==
  (/\ reply.step = "validated"
   /\ isCsvSource(text.sourceUrl)
   /\ trim[text.line] # <<>>)
    => LET row == trim[text.line]
           columns == CsvColumns(row)
           conversion == reply.conversion
           numeric == /\ columns.port # <<>>
                      /\ \A i \in 1..Len(columns.port) : columns.port[i] \in Digits
       IN /\ \/ conversion.skip /\ conversion.error = Null /\ ~conversion.hasValue
             \/ ~conversion.skip /\ conversion.error # Null /\ ~conversion.hasValue
             \/ ~conversion.skip /\ conversion.error = Null /\ conversion.hasValue
          /\ IF isCsvHeader(row)
               THEN conversion.skip
             ELSE IF columns.count < 2 \/ ~numeric
               THEN conversion.error # Null /\ conversion.raw = row
             ELSE IF columns.host = <<>>
               THEN ~conversion.skip
             ELSE /\ conversion.hasValue
                  /\ conversion.value = columns.host \o <<":">> \o columns.port
                  /\ reply.result.ok
                  /\ reply.result.type = text.typeHint
                  /\ reply.result.host = columns.host
                  /\ reply.result.port = columns.port

\* The reasons explainNormalizationFailure has besides its fallback.
SpecificReasons ==
  {"Line is empty after trimming",
   "Missing protocol prefix and no type hint supplied",
   "Missing port separator (:)",
   "Invalid port segment",
   "Host portion is empty",
   "Host contains unsupported characters"}

\* C30: for every token and hint normalizeProxyLine rejects,
\* explainNormalizationFailure returns one of the specific reasons and never
\* the fallback "Unknown failure during normalization"; the candidate the
\* token gave (none) is left as it was.
C30_FailureExplained ==
  reply.step = "explained" =>
    /\ reply.reason.reason \in SpecificReasons
    /\ reply.reason.reason # "Unknown failure during normalization"
    /\ reply.result = NoCandidate

\* ------------------------------------------------------ the source cache
\* Cache validity of the proxy source downloads: 6 hours, in ms.
PROXY_SOURCE_CACHE_VALIDITY == 6 * 60 * 60 * 1000

\* A downloadSource that takes no cached copy for fresh.
sourceIsFresh_Never(mtimeMs, nowMs) ==
  FALSE
\* downloadSource: now - stat.mtimeMs < PROXY_SOURCE_CACHE_VALIDITY
sourceIsFresh(mtimeMs, nowMs) ==
  nowMs - mtimeMs < PROXY_SOURCE_CACHE_VALIDITY

\* url.replace(/^[a-zA-Z]+:\/\//, '')
stripScheme(url) ==
  LET i == firstIndexOf(url, ":")
  IN IF /\ i > 1
        /\ \A k \in 1..(i - 1) : url[k] \in LowerLetters \cup UpperLetters
        /\ startsWith(SubSeq(url, i, Len(url)), <<":", "/", "/">>)
       THEN SubSeq(url, i + 3, Len(url))
       ELSE url

\* urlToCacheFilename(url)
urlToCacheFilename(url) ==
  LET noScheme == stripScheme(url)
  IN [i \in 1..Len(noScheme) |->
        IF noScheme[i] \in AlphaNumeric \cup {"-", "_"} THEN noScheme[i] ELSE "_"]
       \o <<".", "t", "x", "t">>

\* A file of cache/: the lines it holds and its modification time.
NoCopy == [exists |-> FALSE, mtimeMs |-> 0, content |-> <<>>]
Copy(content, mtimeMs) == [exists |-> TRUE, mtimeMs |-> mtimeMs, content |-> content]

\* The lists two socks5 sources serve, line by line.
SourceBodies ==
  {<<<<"1", ".", "2", ".", "3", ".", "4", ":", "1", "0", "8", "0">>,
     <<"5", ".", "6", ".", "7", ".", "8", ":", "1", "0", "8", "0">>>>,
   <<<<"5", ".", "6", ".", "7", ".", "8", ":", "1", "0", "8", "0">>,
     <<"#", " ", "m", "i", "r", "r", "o", "r">>,
     <<"s", "o", "c", "k", "s", "5", ":", "/", "/", "1", ".", "2", ".", "3",
       ".", "4", ":", "1", "0", "8", "0", "/">>,
     <<"9", ".", "9", ".", "9", ".", "9", ":", "8", "0">>,
     <<"5", ".", "6", ".", "7", ".", "8", ":", "1", "0", "8", "0">>>>}

\* What a copy cached by an earlier run holds.
CachedBodies ==
  {<<<<"1", ".", "2", ".", "3", ".", "4", ":", "1", "0", "8", "0">>,
     <<"7", ".", "7", ".", "7", ".", "7", ":", "3", "1", "2", "8">>>>}

\* The sources of the run: two of socks5sources.
LoadSources ==
  <<[url |-> <<"h", "t", "t", "p", "s", ":", "/", "/", "a", ".", "i", "o",
              "/", "s", "o", "c", "k", "s", "5", ".", "t", "x", "t">>,
     type |-> "socks5"],
    [url |-> <<"h", "t", "t", "p", "s", ":", "/", "/", "b", ".", "i", "o",
              "/", "p", "r", "o", "x", "y", ".", "t", "x", "t">>,
     type |-> "socks5"]>>

\* The file of cache/ that holds source i.
cachePath(i) == urlToCacheFilename(LoadSources[i].url)
CacheFiles == {cachePath(i) : i \in 1..Len(LoadSources)}

\* How the download of a source ends: curl exits with 0 after writing the
\* whole list ("ok"), curl fails after writing the first `received` lines
\* ("fail"), or the shell cannot open the destination ("unwritable").
Feeds ==
  [outcome : {"ok", "fail", "unwritable"}, body : SourceBodies, received : {0, 1}]

\* loadProxiesFromSource, the loop over the lines: the candidates of a file,
\* each with the URL of the source.
proxiesOf(lines, type, url) ==
  LET conversion(i) == convertSourceLine(lines[i], type, url)
      norm(i) == normalizeProxyLine(conversion(i).value, type)
      entry(i) == [normalized |-> norm(i).normalized, type |-> norm(i).type,
                   host |-> norm(i).host, port |-> norm(i).port, source |-> url,
                   kept |-> conversion(i).hasValue /\ norm(i).ok]
      kept == SelectSeq([i \in 1..Len(lines) |-> entry(i)], LAMBDA e : e.kept)
  IN [i \in 1..Len(kept) |->
        [normalized |-> kept[i].normalized, type |-> kept[i].type,
         host |-> kept[i].host, port |-> kept[i].port, source |-> kept[i].source]]

\* The proxies of all the per-source results, one after the other.
RECURSIVE allProxies(_)
allProxies(perSourceResults) ==
  IF perSourceResults = <<>> THEN <<>>
  ELSE allProxies(SubSeq(perSourceResults, 1, Len(perSourceResults) - 1))
         \o perSourceResults[Len(perSourceResults)].proxies

\* A deduplication in which the last occurrence of a normalized string wins.
dedupe_LastWins(proxies) ==
  LET numbered == [i \in 1..Len(proxies) |-> [at |-> i, proxy |-> proxies[i]]]
      last == SelectSeq(numbered,
                LAMBDA e : \A j \in (e.at + 1)..Len(proxies) :
                             proxies[j].normalized # e.proxy.normalized)
  IN [i \in 1..Len(last) |-> last[i].proxy]
\* loadAndNormalizeSources, the Map: the first occurrence of a normalized
\* string wins, in the order of the occurrences.
dedupe(proxies) ==
  LET numbered == [i \in 1..Len(proxies) |-> [at |-> i, proxy |-> proxies[i]]]
      first == SelectSeq(numbered,
                 LAMBDA e : \A j \in 1..(e.at - 1) :
                              proxies[j].normalized # e.proxy.normalized)
  IN [i \in 1..Len(first) |-> first[i].proxy]

\* What loadAndNormalizeSources returns; NotLoaded before it has returned.
NotLoaded == [done |-> FALSE, combinedCount |-> 0, dedupedProxies |-> <<>>]

\* ------------------------------------------------------- the sources load
\* The sources before a load: how each retrieval will end and what cache/
\* holds.
SourcesStart ==
  /\ feeds \in [1..Len(LoadSources) -> Feeds]
  /\ sourceCache \in
       [CacheFiles ->
          {NoCopy} \cup {Copy(content, mtimeMs) :
                           content \in CachedBodies, mtimeMs \in {0, 1}}]
  /\ \A i \in 1..Len(LoadSources) :
       /\ feeds[i].outcome = "unwritable" => ~sourceCache[cachePath(i)].exists
       /\ feeds[i].outcome # "fail" => feeds[i].received = 0
  /\ loads = <<>>
  /\ loaded = NotLoaded
  /\ text = <<>>
  /\ reply = <<>>

LoadInit ==
  /\ now = PROXY_SOURCE_CACHE_VALIDITY
  /\ ProcessStart
  /\ SourcesStart
  /\ NoReporter
  /\ NoTools

loadFrame ==
  <<now, cache, diskVars, pc, returned, runVars, setVars, countVars, batchVars,
    histVars, emitted, faults, feeds, text, reply,
    reportVars, toolVars>>

\* A loadProxiesFromSource call: where it is, the path downloadSource
\* returned, its proxies, and for the record the copy it found, whether it
\* spawned curl and how many calls had returned before it.
Load(at, hasPath, path, proxies, before, fetched, rank) ==
  [pc |-> at, hasPath |-> hasPath, path |-> path, proxies |-> proxies,
   before |-> before, fetched |-> fetched, rank |-> rank]

\* The loads that have returned.
Returned == {i \in 1..Len(loads) : loads[i].pc = "done"}

\* loadAndNormalizeSources is called: sources.map(loadProxiesFromSource)
\* starts every load.  downloadSource returns the path of a fresh copy at
\* once and the load goes on to read it; otherwise curl is spawned, and the
\* shell opens the destination of `> dest`, which empties it.
startLoads ==
  /\ loads = <<>>
  /\ loads' =
       [i \in 1..Len(LoadSources) |->
          LET copy == sourceCache[cachePath(i)]
          IN IF copy.exists /\ sourceIsFresh(copy.mtimeMs, now)
               THEN Load("reading", TRUE, cachePath(i), <<>>, copy, FALSE, 0)
               ELSE Load("curl", FALSE, <<>>, <<>>, copy, TRUE, 0)]
  /\ sourceCache' =
       [f \in CacheFiles |->
          LET i == CHOOSE i \in 1..Len(LoadSources) : cachePath(i) = f
              copy == sourceCache[f]
          IN IF copy.exists /\ sourceIsFresh(copy.mtimeMs, now) THEN copy
             ELSE IF feeds[i].outcome = "unwritable" THEN copy
             ELSE Copy(<<>>, now)]

StartLoads ==
  /\ startLoads
  /\ UNCHANGED <<loaded, loadFrame>>

\* curl has exited for source i.  On success downloadSource sets the
\* modification time and returns the path; on failure it returns the path
\* if the file exists and null otherwise.  With a path the load goes on to
\* read the file, without one it returns no proxies.
CurlExit(i) ==
  /\ loads[i].pc = "curl"
  /\ LET f == cachePath(i)
         landed ==
           CASE feeds[i].outcome = "ok" -> Copy(feeds[i].body, now)
             [] feeds[i].outcome = "fail" ->
                  Copy(SubSeq(feeds[i].body, 1, feeds[i].received), now)
             [] OTHER -> sourceCache[f]
     IN /\ sourceCache' = [sourceCache EXCEPT ![f] = landed]
        /\ loads' =
             [loads EXCEPT ![i] =
                IF feeds[i].outcome = "ok" \/ landed.exists
                  THEN [@ EXCEPT !.pc = "reading", !.hasPath = TRUE, !.path = f]
                  ELSE [@ EXCEPT !.pc = "done", !.rank = Cardinality(Returned)]]
  /\ UNCHANGED <<loaded, loadFrame>>

\* readFile has read the file of source i: its lines are converted and
\* normalized, and the load returns its proxies.
ReadDone(i) ==
  /\ loads[i].pc = "reading"
  /\ loads' =
       [loads EXCEPT ![i] =
          [@ EXCEPT !.pc = "done",
                    !.rank = Cardinality(Returned),
                    !.proxies = proxiesOf(sourceCache[loads[i].path].content,
                                          LoadSources[i].type, LoadSources[i].url)]]
  /\ UNCHANGED <<sourceCache, loaded, loadFrame>>

\* Promise.all has resolved with the results in the order of the sources:
\* loadAndNormalizeSources counts and deduplicates the proxies.
Combine ==
  /\ ~loaded.done
  /\ loads # <<>>
  /\ \A i \in 1..Len(loads) : loads[i].pc = "done"
  /\ loaded' = [done |-> TRUE,
                combinedCount |-> Len(allProxies(loads)),
                dedupedProxies |-> dedupe(allProxies(loads))]
  /\ UNCHANGED <<sourceCache, loads, loadFrame>>

LoadNext ==
  \/ StartLoads
  \/ \E i \in 1..Len(loads) : CurlExit(i)
  \/ \E i \in 1..Len(loads) : ReadDone(i)
  \/ Combine

LoadSpec == LoadInit /\ [][LoadNext]_vars

\* ------------------------------------------------- claims about the sources
\* C21: downloadSource(url) fetches nothing when the cache file of url
\* exists and is younger than 6 hours (now - mtime); it returns the path of
\* that file and leaves the file as it was.
C21_FreshCopyUsed ==
  \A i \in 1..Len(loads) :
    (/\ loads[i].before.exists
     /\ now - loads[i].before.mtimeMs < 6 * 60 * 60 * 1000)
      => /\ ~loads[i].fetched
         /\ loads[i].pc # "curl"
         /\ loads[i].hasPath
         /\ loads[i].path = cachePath(i)
         /\ sourceCache[cachePath(i)] = loads[i].before

\* The first source had a copy one millisecond younger than 6 hours, the
\* second a copy of exactly 6 hours that was fetched anew; the load of the
\* first returned the proxies of its copy.
C21_Witness ==
  /\ Len(loads) = 2
  /\ loads[1].before = Copy(sourceCache[cachePath(1)].content, 1)
  /\ ~loads[1].fetched
  /\ loads[1].pc = "done"
  /\ Len(loads[1].proxies) = 2
  /\ sourceCache[cachePath(1)] = loads[1].before
  /\ loads[2].before.exists
  /\ loads[2].before.mtimeMs = 0
  /\ loads[2].fetched

\* The loads whose download was attempted and failed, and has ended.
FailedDownloads ==
  {i \in 1..Len(loads) :
     /\ loads[i].fetched
     /\ loads[i].pc \in {"reading", "done"}
     /\ feeds[i].outcome # "ok"}

\* C22: when the retrieval of a source fails and a stale copy existed before
\* the attempt, downloadSource returns the path of that copy and the file
\* still holds what was cached, so that the run uses the stale entries of
\* the source.
C22_StaleCopyServed ==
  \A i \in FailedDownloads :
    loads[i].before.exists
      => /\ loads[i].hasPath
         /\ loads[i].path = cachePath(i)
         /\ sourceCache[cachePath(i)].content = loads[i].before.content
         /\ loads[i].pc = "done"
              => loads[i].proxies =
                   proxiesOf(loads[i].before.content, LoadSources[i].type,
                             LoadSources[i].url)

\* C23: when the retrieval of a source fails and no copy existed before the
\* attempt, downloadSource returns null and the source contributes no
\* candidate to the run (no exception escapes: the load returns).
C23_NoCopyNoCandidates ==
  \A i \in FailedDownloads :
    ~loads[i].before.exists
      => /\ ~loads[i].hasPath
         /\ loads[i].pc = "done"
         /\ loads[i].proxies = <<>>

\* The normalized strings among the proxies of load i.
NormalizedOf(i) == {loads[i].proxies[k].normalized : k \in 1..Len(loads[i].proxies)}

\* C24: of the N lines of the M sources with K distinct normalized strings,
\* loadAndNormalizeSources returns exactly K deduplicated candidates, and
\* the source recorded with each is the earliest source of the list that
\* holds its normalized string, in whatever order the loads completed.
C24_DedupeFirstSourceWins ==
  loaded.done =>
    LET deduped == loaded.dedupedProxies
        holders(e) == {i \in 1..Len(loads) : e.normalized \in NormalizedOf(i)}
    IN /\ Len(deduped) = Cardinality(UNION {NormalizedOf(i) : i \in 1..Len(loads)})
       /\ \A a, b \in 1..Len(deduped) :
            deduped[a].normalized = deduped[b].normalized => a = b
       /\ \A a \in 1..Len(deduped) :
            /\ holders(deduped[a]) # {}
            /\ \A i \in holders(deduped[a]) :
                 \E j \in holders(deduped[a]) :
                   j <= i /\ deduped[a].source = LoadSources[j].url
            /\ \A j \in holders(deduped[a]) :
                 deduped[a].source = LoadSources[j].url
                   => \A i \in holders(deduped[a]) : j <= i

\* The second source returned first; the six candidates of the two sources
\* have three distinct normalized strings, and one that both sources hold is
\* recorded with the first source.
C24_Witness ==
  /\ loaded.done
  /\ loads[2].rank = 0
  /\ loads[1].rank = 1
  /\ loaded.combinedCount = 6
  /\ Len(loaded.dedupedProxies) = 3
  /\ \E a \in 1..Len(loaded.dedupedProxies) :
       /\ loaded.dedupedProxies[a].normalized \in NormalizedOf(1) \cap NormalizedOf(2)
       /\ loaded.dedupedProxies[a].source = LoadSources[1].url

\* C37: a failed retrieval never makes a cached copy fresh: after
\* downloadSource failed to retrieve a URL the modification time of the
\* cache file is not advanced, so that the next downloadSource call for the
\* URL within 6 hours attempts the retrieval again.
C37_FailureKeepsCopyStale ==
  \A i \in FailedDownloads :
    LET copy == sourceCache[cachePath(i)]
    IN /\ copy.mtimeMs = loads[i].before.mtimeMs
       /\ ~(copy.exists /\ sourceIsFresh(copy.mtimeMs, now))

\* ------------------------------------------------------ the reporter timer
\* The callback of setInterval in processProxiesWithQueue, in both engines:
\* it copies the counters into stats and logs them.
LogTick ==
  /\ logInterval = "armed"
  /\ snapshot' = [type |-> TypeOrder[typeIdx], active |-> active,
                  finished |-> finished, detected |-> detected, failed |-> failed]
  /\ UNCHANGED <<now, cache, diskVars, pc, returned, runVars, setVars, countVars,
                 batchVars, histVars, emitted, faults, sourceVars, logInterval,
                 engine, toolVars>>

\* Runs of the pipeline with either engine, the reporter timer firing at any
\* time it is armed.
ReporterInit ==
  /\ now = 0
  /\ ProcessStart
  /\ NoSources
  /\ NoTools
  /\ logInterval = "idle"
  /\ snapshot = NoSnapshot
  /\ engine \in {"workers", "queue"}

\* processProxiesWithQueue with the worker pool.
WorkersBatch ==
  /\ engine = "workers"
  /\ BatchAllKnown \/ StartBatch \/ WorkerStep \/ FinishBatch

\* processProxiesWithQueue with launchNext.
QueueBatch ==
  /\ engine = "queue"
  /\ QueueStart \/ QueueStep

ReporterNext ==
  \/ StartRun
  \/ SkipEmptyType
  \/ WorkersBatch
  \/ QueueBatch
  \/ FinishRun
  \/ Exit
  \/ LogTick

ReporterSpec == ReporterInit /\ [][ReporterNext]_vars


\* C31: in both engines the reporter timer is armed only while a batch is
\* running, so it emits no snapshot once the batch completed, whichever way the
\* batch completed; and a step that emits a snapshot happens during a batch and
\* changes nothing but the statistics snapshot.
C31_TimerStoppedAtCompletion ==
  /\ [](logInterval = "armed" => pc = "batch")
  /\ [][snapshot' # snapshot =>
          /\ pc = "batch"
          /\ UNCHANGED <<now, cache, diskVars, pc, returned, runVars, setVars,
                         countVars, batchVars, histVars, emitted, faults, sourceVars,
                         logInterval, engine, toolVars>>]_vars

C31_Witness ==
  /\ snapshot.type = "socks5"
  /\ snapshot.finished > 0
  /\ pc = "loop"
  /\ typeIdx > 1
  /\ logInterval = "idle"


\* ------------------------------------------------------------------ runCurl
\* Everything but the variables of the command-line tools and of the sources.
pipelineVars == <<now, cache, diskVars, pc, returned, runVars, setVars, countVars,
                  batchVars, histVars, emitted, faults, reportVars>>

MaxChunks == 2

\* Exit codes of curl: success, could not connect, timed out.
ExitCodes == {0, 7, 28}

\* What the child writes to its stdout in one 'data' event.
Chunks == {"1.2.3.4", " "}

NoSettlement == [by |-> "none", kind |-> "pending", killed |-> FALSE, stdout |-> <<>>]

\* The closure of one runCurl call right after the promise executor returned:
\* the child is spawned (or the spawn failed), the handlers are registered and
\* the timer is armed. `code` is the status the child will exit with, `events`
\* the handlers that have run, `settlement` how the promise was settled.
CurlCalls ==
  [child : {"running", "failed"}, code : ExitCodes, stdout : {<<>>},
   finished : {FALSE}, timeoutHandle : {"armed"}, events : {<<>>},
   kills : {0}, settles : {0}, settlement : {NoSettlement}]

RunCurlInit ==
  /\ now = 0
  /\ ProcessStart
  /\ NoSources
  /\ NoReporter
  /\ curlCall \in CurlCalls
  /\ proxyFiles = <<>>
  /\ validation = <<>>
  /\ update = <<>>
  /\ cron = <<>>

runCurlFrame == UNCHANGED <<pipelineVars, sourceVars, proxyFiles, validation, update, cron>>

\* `if (!finished)`, the guard of all three handlers.
notFinished_Always(call) == TRUE
notFinished(call) == ~call.finished

clearTimeout(handle) == IF handle = "armed" THEN "cleared" ELSE handle

\* resolve(...) or reject(...): a promise keeps its first settlement.
settle(call, by, kind, killed) ==
  [call EXCEPT !.settles = @ + 1,
               !.settlement = IF call.settles = 0
                                THEN [by |-> by, kind |-> kind, killed |-> killed,
                                      stdout |-> call.stdout]
                                ELSE @]

\* child.stdout.on('data')
StdoutData ==
  /\ curlCall.child = "running"
  /\ Len(curlCall.stdout) < MaxChunks
  /\ \E chunk \in Chunks : curlCall' = [curlCall EXCEPT !.stdout = Append(@, chunk)]
  /\ runCurlFrame

\* The child process exits by itself with its status.
ChildExits ==
  /\ curlCall.child = "running"
  /\ curlCall' = [curlCall EXCEPT !.child = "exited"]
  /\ runCurlFrame

\* child.on('error')
OnError ==
  /\ "error" \notin Range(curlCall.events)
  /\ LET seen == [curlCall EXCEPT !.events = Append(@, "error")]
     IN curlCall' =
          IF notFinished(curlCall)
            THEN settle([seen EXCEPT !.finished = TRUE,
                                     !.timeoutHandle = clearTimeout(@)],
                        "error", "rejected", FALSE)
            ELSE seen
  /\ runCurlFrame

\* child.on('close'): the status is the child's own only when it exited by
\* itself; a killed child closes with code null and a signal.
OnClose ==
  /\ curlCall.child # "running"
  /\ "close" \notin Range(curlCall.events)
  /\ LET seen == [curlCall EXCEPT !.events = Append(@, "close")]
         ok == curlCall.child = "exited" /\ curlCall.code = 0
     IN curlCall' =
          IF notFinished(curlCall)
            THEN settle([seen EXCEPT !.finished = TRUE,
                                     !.timeoutHandle = clearTimeout(@)],
                        "close", IF ok THEN "resolved" ELSE "rejected", FALSE)
            ELSE seen
  /\ runCurlFrame

\* The callback of setTimeout(..., timeoutMs + 500).
OnTimeout ==
  /\ curlCall.timeoutHandle = "armed"
  /\ LET seen == [curlCall EXCEPT !.events = Append(@, "timeout"),
                                  !.timeoutHandle = "fired"]
     IN curlCall' =
          IF notFinished(curlCall)
            THEN settle([seen EXCEPT !.finished = TRUE,
                                     !.kills = @ + 1,
                                     !.child = IF @ = "running" THEN "killed" ELSE @],
                        "timeout", "rejected", TRUE)
            ELSE seen
  /\ runCurlFrame

RunCurlNext ==
  \/ StdoutData
  \/ ChildExits
  \/ OnError
  \/ OnClose
  \/ OnTimeout

RunCurlSpec == RunCurlInit /\ [][RunCurlNext]_vars

\* C40: whatever the order of the close event, the error event and the timer,
\* the promise of runCurl is settled exactly once, by the first of them; later
\* events change neither the settlement nor the child; the child is killed only
\* by a timer that fired first, and the timer is cancelled when close or error
\* came first.
C40_SettlesOnce ==
  /\ [](/\ curlCall.settles = (IF curlCall.events = <<>> THEN 0 ELSE 1)
        /\ curlCall.events # <<>> =>
             /\ curlCall.settlement.by = Head(curlCall.events)
             /\ curlCall.settlement.killed = (Head(curlCall.events) = "timeout")
             /\ Head(curlCall.events) \in {"close", "error"} =>
                  curlCall.timeoutHandle = "cleared"
        /\ (curlCall.child = "killed" \/ curlCall.kills > 0) =>
             /\ curlCall.kills = 1
             /\ Head(curlCall.events) = "timeout")
  /\ [][curlCall.events # <<>> =>
          /\ curlCall'.settlement = curlCall.settlement
          /\ curlCall'.timeoutHandle = curlCall.timeoutHandle
          /\ curlCall'.kills = curlCall.kills
          /\ curlCall'.child = "killed" <=> curlCall.child = "killed"]_vars

C40_Witness ==
  /\ curlCall.events = <<"timeout", "error", "close">>
  /\ curlCall.child = "killed"
  /\ curlCall.settles = 1


\* --------------------------------------------------------------- cronjob.sh
\* The three commands of the job, in the order of the script.
CronSteps == <<"detectProxies", "writeWorkingProxiesToFiles", "gitPush">>

\* The exit status of `command 2>&1 | tee -a cron.log`: the script sets no
\* pipefail, so it is the status of the last command of the pipeline.
pipelineStatus(statuses) == statuses[Len(statuses)]

\* A job about to run its first command; `statuses` gives, for each command,
\* the exit status it will have and the exit status of the tee it is piped to.
CronJobs ==
  [at : {1}, statuses : [1..Len(CronSteps) -> [1..2 -> {0, 1}]],
   ran : {<<>>}, errors : {<<>>}, exited : {FALSE}, code : {0}]

CronInit ==
  /\ now = 0
  /\ ProcessStart
  /\ NoSources
  /\ NoReporter
  /\ cron \in CronJobs
  /\ curlCall = <<>>
  /\ proxyFiles = <<>>
  /\ validation = <<>>
  /\ update = <<>>

cronFrame == UNCHANGED <<pipelineVars, sourceVars, curlCall, proxyFiles, validation, update>>

\* `if <command> 2>&1 | tee -a cron.log; then ... else echo ERROR; exit 1; fi`
runStep(i) ==
  /\ ~cron.exited
  /\ cron.at = i
  /\ cron' = IF pipelineStatus(cron.statuses[i]) = 0
               THEN [cron EXCEPT !.at = i + 1, !.ran = Append(@, CronSteps[i])]
               ELSE [cron EXCEPT !.ran = Append(@, CronSteps[i]),
                                 !.errors = Append(@, CronSteps[i]),
                                 !.exited = TRUE, !.code = 1]
  /\ cronFrame

CronDetectProxies == runStep(1)

CronWriteWorkingProxies == runStep(2)

CronGitPush == runStep(3)

\* The last line of the script: the completion message.
CronCompleted ==
  /\ ~cron.exited
  /\ cron.at = Len(CronSteps) + 1
  /\ cron' = [cron EXCEPT !.exited = TRUE, !.code = 0]
  /\ cronFrame

CronNext ==
  \/ CronDetectProxies
  \/ CronWriteWorkingProxies
  \/ CronGitPush
  \/ CronCompleted

CronSpec == CronInit /\ [][CronNext]_vars

\* C39: a command of the job runs only after every earlier command exited with
\* status 0, and once a command exited with a non-zero status the job logs the
\* error, runs no later command and exits with status 1.
C39_StepsGatedByExitStatus ==
  \A i \in 1..Len(CronSteps) :
    /\ CronSteps[i] \in Range(cron.ran) =>
         \A j \in 1..(i - 1) : cron.statuses[j][1] = 0
    /\ (CronSteps[i] \in Range(cron.ran) /\ cron.statuses[i][1] # 0) =>
         /\ CronSteps[i] \in Range(cron.errors)
         /\ cron.exited
         /\ cron.code = 1


\* ------------------------------------------------------ updateFreeProxyList
\* "x" -> "xx" for every double quote of the value.
RECURSIVE doubleQuotes(_)
doubleQuotes(value) ==
  IF value = <<>> THEN <<>>
  ELSE (IF Head(value) = "\"" THEN <<"\"", "\"">> ELSE <<Head(value)>>)
         \o doubleQuotes(Tail(value))

csvEscape(value) ==
  IF \E i \in 1..Len(value) : value[i] \in {"\"", ",", "\n"}
    THEN <<"\"">> \o doubleQuotes(value) \o <<"\"">>
    ELSE value

\* exportAllProxiesCsv: the header and one row per proxy.
csvRows(dedupedProxies) ==
  <<"host,port,protocol,source">>
    \o [i \in 1..Len(dedupedProxies) |->
          LET proxy == dedupedProxies[i]
          IN csvEscape(proxy.host) \o <<",">> \o csvEscape(proxy.port) \o <<",">>
               \o csvEscape(typeText(proxy.type)) \o <<",">> \o csvEscape(proxy.source)]

NoStatus == [status |-> "none"]

\* An updateFreeProxyList call waiting for detectProxies.
UpdateInit ==
  /\ now = PROXY_SOURCE_CACHE_VALIDITY
  /\ ProcessStart
  /\ SourcesStart
  /\ NoReporter
  /\ update = [pc |-> "detectProxies", detected |-> FALSE, workingFiles |-> FALSE,
               csv |-> [exists |-> FALSE, rows |-> <<>>], resolved |-> NoStatus]
  /\ curlCall = <<>>
  /\ proxyFiles = <<>>
  /\ validation = <<>>
  /\ cron = <<>>

updateFrame ==
  <<now, cache, diskVars, pc, returned, runVars, setVars, countVars, batchVars,
    histVars, emitted, faults, feeds, text, reply, reportVars,
    curlCall, proxyFiles, validation, cron>>

\* detectProxies returns its results.
DetectProxiesReturns ==
  /\ update.pc = "detectProxies"
  /\ update' = [update EXCEPT !.pc = "resume", !.detected = TRUE]
  /\ UNCHANGED <<sourceVars, pipelineVars, curlCall, proxyFiles, validation, cron>>

\* updateFreeProxyList after `await detectProxies()`: it writes the working
\* proxies, calls exportAllProxiesCsv, which runs up to its first await and so
\* starts the loads, and returns its status.
UpdateResumes ==
  /\ update.pc = "resume"
  /\ startLoads
  /\ update' = [update EXCEPT !.pc = "returned", !.workingFiles = TRUE,
                              !.resolved = [status |-> "UPDATE_SUCCESS"]]
  /\ UNCHANGED <<loaded, updateFrame>>

\* exportAllProxiesCsv after `await loadAndNormalizeSources(allSources)`.
ExportWritesCsv ==
  /\ loaded.done
  /\ ~update.csv.exists
  /\ update' = [update EXCEPT !.csv = [exists |-> TRUE,
                                       rows |-> csvRows(loaded.dedupedProxies)]]
  /\ UNCHANGED <<sourceVars, pipelineVars, curlCall, proxyFiles, validation, cron>>

UpdateNext ==
  \/ DetectProxiesReturns
  \/ UpdateResumes
  \/ \E i \in 1..Len(loads) : CurlExit(i)
  \/ \E i \in 1..Len(loads) : ReadDone(i)
  \/ Combine
  \/ ExportWritesCsv

UpdateSpec == UpdateInit /\ [][UpdateNext]_vars

\* C38: updateFreeProxyList resolves with UPDATE_SUCCESS only after
\* detectProxies has finished, the working-proxy files have been written and
\* exportAllProxiesCsv has completed.
C38_SuccessAfterAllSteps ==
  update.resolved.status = "UPDATE_SUCCESS" =>
    /\ update.detected
    /\ update.workingFiles
    /\ update.csv.exists


\* ----------------------------------------------- writeWorkingProxiesToFiles
\* The entry the socks5 file starts with.
FixedEntry ==
  <<"7", "8", ".", "4", "7", ".", "6", "3", ".", "1", "6", "1", ":", "1", "0", "8", "0">>

\* The `proxy` strings of the working records of a run state.
Socks5Proxies ==
  {<<"s", "o", "c", "k", "s", "5", ":", "/", "/", "7", "8", ".", "4", "7", ".", "6", "3", ".", "1", "6", "1", ":", "1", "0", "8", "0">>,
   <<"s", "o", "c", "k", "s", "5", ":", "/", "/", "1", ".", "2", ".", "3", ".", "4", ":", "8", "0">>,
   <<"s", "o", "c", "k", "s", "5", ":", "/", "/", "5", ".", "6", ".", "7", ".", "8", ":", "1", "0", "8", "0">>}

HttpProxies ==
  {<<"h", "t", "t", "p", ":", "/", "/", "1", ".", "2", ".", "3", ".", "4", ":", "8", "0">>,
   <<"h", "t", "t", "p", ":", "/", "/", "5", ".", "6", ".", "7", ".", "8", ":", "8", "0", "8", "0">>}

MaxWorking == 2

\* Working records: most carry `proxy`, an old one only `original`.
WorkingRecords(proxies) ==
  [proxy : proxies, original : {<<>>}]
    \cup {[proxy |-> <<>>, original |-> <<"9", ".", "9", ".", "9", ".", "9", ":", "8", "0">>]}

WorkingLists(proxies) ==
  UNION {[1..n -> WorkingRecords(proxies)] : n \in 0..MaxWorking}

\* outputs/proxy_results.json as the tool finds it: unreadable, or the run
\* state with its working lists.
ResultsFiles ==
  {[readable |-> FALSE, working |-> [t \in Types |-> <<>>]]}
    \cup {[readable |-> TRUE,
           working |-> [t \in Types |->
                          CASE t = "socks5" -> s5 [] t = "http" -> h [] OTHER -> <<>>]] :
            s5 \in WorkingLists(Socks5Proxies), h \in WorkingLists(HttpProxies)}

NoFiles == [t \in Types |-> [exists |-> FALSE, lines |-> <<>>]]

WriteFilesInit ==
  /\ now = 0
  /\ ProcessStart
  /\ NoSources
  /\ NoReporter
  /\ \E file \in ResultsFiles :
       proxyFiles = [results |-> file, called |-> FALSE, files |-> NoFiles,
                     ips |-> [exists |-> FALSE, lines |-> <<>>],
                     lastUpdated |-> [exists |-> FALSE, date |-> 0]]
  /\ curlCall = <<>>
  /\ validation = <<>>
  /\ update = <<>>
  /\ cron = <<>>

\* s.replace(/^.*?:\/\//, ''): s without its shortest prefix ending in "://".
afterScheme(s) ==
  LET at == {i \in 1..Len(s) : startsWith(SubSeq(s, i, Len(s)), <<":", "/", "/">>)}
  IN IF at = {} THEN s
     ELSE SubSeq(s, (CHOOSE i \in at : \A j \in at : i <= j) + 3, Len(s))

\* p.proxy || p.original
proxyStr(p) == IF p.proxy # <<>> THEN p.proxy ELSE p.original

\* The candidates the loop over currentResults.working pushes: those that
\* normalize and whose normalized string was not yet in normalizedSet.
pushed(working, type) ==
  LET norm(i) == normalizeProxyLine(proxyStr(working[i]), type)
      canPush(i) == proxyStr(working[i]) # <<>> /\ norm(i).ok
      entry(i) == [norm |-> norm(i),
                   kept |-> /\ canPush(i)
                            /\ \A j \in 1..(i - 1) :
                                 ~(canPush(j) /\ norm(j).normalized = norm(i).normalized)]
      kept == SelectSeq([i \in 1..Len(working) |-> entry(i)], LAMBDA e : e.kept)
  IN [i \in 1..Len(kept) |-> kept[i].norm]

\* dedupedProxies of one protocol, the lines of ${type}_working.txt.
dedupedLines(working, type) ==
  (IF type = "socks5" THEN <<FixedEntry>> ELSE <<>>)
    \o [i \in 1..Len(pushed(working, type)) |->
          afterScheme(pushed(working, type)[i].normalized)]

\* [...new Set(allIPs)]
RECURSIVE uniqueOf(_)
uniqueOf(list) ==
  IF list = <<>> THEN <<>>
  ELSE LET front == uniqueOf(SubSeq(list, 1, Len(list) - 1))
           last == list[Len(list)]
       IN IF last \in Range(front) THEN front ELSE Append(front, last)

RECURSIVE allIPs(_, _)
allIPs(parsed, n) ==
  IF n = 0 THEN <<>>
  ELSE allIPs(parsed, n - 1)
         \o [i \in 1..Len(pushed(parsed[TypeOrder[n]], TypeOrder[n])) |->
               pushed(parsed[TypeOrder[n]], TypeOrder[n])[i].host]

writeFilesFrame == UNCHANGED <<pipelineVars, sourceVars, curlCall, validation, update, cron>>

writeWorkingProxiesToFiles ==
  /\ ~proxyFiles.called
  /\ proxyFiles' =
       IF ~proxyFiles.results.readable
         THEN [proxyFiles EXCEPT !.called = TRUE]
         ELSE [proxyFiles EXCEPT
                 !.called = TRUE,
                 !.files = [t \in Types |->
                              [exists |-> TRUE,
                               lines |-> dedupedLines(proxyFiles.results.working[t], t)]],
                 !.ips = [exists |-> TRUE,
                          lines |-> uniqueOf(allIPs(proxyFiles.results.working,
                                                    Len(TypeOrder)))],
                 !.lastUpdated = [exists |-> TRUE, date |-> now]]
  /\ writeFilesFrame

WriteFilesNext == writeWorkingProxiesToFiles

WriteFilesSpec == WriteFilesInit /\ [][WriteFilesNext]_vars

\* The host:port of the working records, each once, in the order of their
\* first occurrence.
hostPortsOnce(working) ==
  uniqueOf([i \in 1..Len(working) |-> afterScheme(proxyStr(working[i]))])

\* C32: once writeWorkingProxiesToFiles has written from a readable run state,
\* each protocol's file has no line twice and lists the host:port of every
\* working record once, in run-state order, the socks5 file after its fixed
\* first entry 78.47.63.161:1080.
C32_WorkingFilesListEachOnce ==
  (proxyFiles.called /\ proxyFiles.results.readable) =>
    \A t \in Types :
      LET lines == proxyFiles.files[t].lines
          listed == IF t = "socks5" THEN Tail(lines) ELSE lines
      IN /\ proxyFiles.files[t].exists
         /\ t = "socks5" => Head(lines) = FixedEntry
         /\ \A i, j \in 1..Len(lines) : i # j => lines[i] # lines[j]
         /\ listed = hostPortsOnce(proxyFiles.results.working[t])


\* ----------------------------------------------- validateNormalizeProxyLine
\* A list with a blank line, a line without a port and a line with a port of
\* six digits, besides the lists of the load.
ValidationBodies ==
  SourceBodies
    \cup {<<<<"1", ".", "2", ".", "3", ".", "4", ":", "8", "0">>,
            <<>>,
            <<"1", ".", "2", ".", "3", ".", "4">>,
            <<"1", ".", "2", ".", "3", ".", "4", ":", "1", "2", "3", "4", "5", "6">>>>}

ValidationFeeds ==
  [outcome : {"ok", "fail", "unwritable"}, body : ValidationBodies, received : {0, 1}]

NoSummary ==
  [sourcesChecked |-> 0, totalLines |-> 0, skippedComments |-> 0, normalized |-> 0,
   failures |-> <<>>]

\* tests.js about to call validateNormalizeProxyLine: how each retrieval will
\* end, what cache/ holds and which cache files can be read.  `attempted` and
\* `linesRead` record the retrievals made and the lines of the files read.
ValidateInit ==
  /\ now = PROXY_SOURCE_CACHE_VALIDITY
  /\ ProcessStart
  /\ feeds \in [1..Len(LoadSources) -> ValidationFeeds]
  /\ sourceCache \in
       [CacheFiles ->
          {NoCopy} \cup {Copy(content, mtimeMs) :
                           content \in CachedBodies, mtimeMs \in {0, 1}}]
  /\ \A i \in 1..Len(LoadSources) :
       /\ feeds[i].outcome = "unwritable" => ~sourceCache[cachePath(i)].exists
       /\ feeds[i].outcome # "fail" => feeds[i].received = 0
  /\ loads = <<>>
  /\ loaded = NotLoaded
  /\ text = <<>>
  /\ reply = <<>>
  /\ NoReporter
  /\ \E readable \in [1..Len(LoadSources) -> BOOLEAN] :
       validation = [pc |-> "source", at |-> 1, readable |-> readable,
                     summary |-> NoSummary, attempted |-> {}, linesRead |-> 0,
                     exitCode |-> 0]
  /\ curlCall = <<>>
  /\ proxyFiles = <<>>
  /\ update = <<>>
  /\ cron = <<>>

validateFrame ==
  UNCHANGED <<pipelineVars, feeds, loads, loaded, text, reply, curlCall, proxyFiles,
              update, cron>>

\* The callback of lines.forEach: what becomes of one line.
lineOutcome(line, type, url) ==
  LET conversion == convertSourceLine(line, type, url)
  IN IF conversion.skip THEN "skipped"
     ELSE IF conversion.error # Null THEN "stage1"
     ELSE IF normalizeProxyLine(conversion.value, type).ok THEN "normalized"
     ELSE "stage2"

Failure(i, lineNumber, stage) == [source |-> i, lineNumber |-> lineNumber, stage |-> stage]

\* validateNormalizeProxyLine from `summary.sourcesChecked += 1` to the end
\* of the loop body, for source i whose cache file holds `lines`.
checkSource(summary, i, canRead, lines) ==
  LET outcomes == [k \in 1..Len(lines) |->
                     [lineNumber |-> k,
                      is |-> lineOutcome(lines[k], LoadSources[i].type, LoadSources[i].url)]]
      count(kinds) == Len(SelectSeq(outcomes, LAMBDA o : o.is \in kinds))
      rejected == SelectSeq(outcomes, LAMBDA o : o.is \in {"stage1", "stage2"})
  IN IF ~canRead
       THEN [summary EXCEPT !.sourcesChecked = @ + 1,
                            !.failures = Append(@, Failure(i, 0, "read"))]
       ELSE [summary EXCEPT
               !.sourcesChecked = @ + 1,
               !.skippedComments = @ + count({"skipped"}),
               !.totalLines = @ + count({"normalized", "stage2"}),
               !.normalized = @ + count({"normalized"}),
               !.failures = @ \o [k \in 1..Len(rejected) |->
                                    Failure(i, rejected[k].lineNumber, rejected[k].is)]]

\* The loop reaches the next source and calls downloadSource: with a fresh
\* copy it gets the path at once and checks the file; otherwise curl is
\* spawned and the shell opens, and so empties, the destination.
ValidateSource ==
  /\ validation.pc = "source"
  /\ validation.at <= Len(LoadSources)
  /\ LET i == validation.at
         f == cachePath(i)
         copy == sourceCache[f]
     IN IF copy.exists /\ sourceIsFresh(copy.mtimeMs, now)
          THEN /\ validation' =
                    [validation EXCEPT
                       !.at = i + 1,
                       !.linesRead = @ + (IF validation.readable[i]
                                            THEN Len(copy.content) ELSE 0),
                       !.summary = checkSource(@, i, validation.readable[i], copy.content)]
               /\ sourceCache' = sourceCache
          ELSE /\ validation' = [validation EXCEPT !.pc = "curl",
                                                   !.attempted = @ \cup {i}]
               /\ sourceCache' =
                    [sourceCache EXCEPT ![f] = IF feeds[i].outcome = "unwritable"
                                                 THEN @ ELSE Copy(<<>>, now)]
  /\ validateFrame

\* curl has exited: downloadSource returns the path when curl succeeded or
\* the file exists, and null otherwise; the loop records the failure or
\* checks the file.
ValidateCurlExit ==
  /\ validation.pc = "curl"
  /\ LET i == validation.at
         f == cachePath(i)
         landed ==
           CASE feeds[i].outcome = "ok" -> Copy(feeds[i].body, now)
             [] feeds[i].outcome = "fail" ->
                  Copy(SubSeq(feeds[i].body, 1, feeds[i].received), now)
             [] OTHER -> sourceCache[f]
         hasPath == feeds[i].outcome = "ok" \/ landed.exists
     IN /\ sourceCache' = [sourceCache EXCEPT ![f] = landed]
        /\ validation' =
             IF hasPath
               THEN [validation EXCEPT
                       !.pc = "source", !.at = i + 1,
                       !.linesRead = @ + (IF validation.readable[i]
                                            THEN Len(landed.content) ELSE 0),
                       !.summary = checkSource(@, i, validation.readable[i],
                                               landed.content)]
               ELSE [validation EXCEPT
                       !.pc = "source", !.at = i + 1,
                       !.summary.failures = Append(@, Failure(i, 0, "download"))]
  /\ validateFrame

\* validateNormalizeProxyLine returns the summary and run() of tests.js sets
\* the exit code.
ValidateReturns ==
  /\ validation.pc = "source"
  /\ validation.at > Len(LoadSources)
  /\ validation' = [validation EXCEPT
                      !.pc = "done",
                      !.exitCode = IF Len(validation.summary.failures) > 0 THEN 1 ELSE 0]
  /\ UNCHANGED sourceCache
  /\ validateFrame

ValidateNext ==
  \/ ValidateSource
  \/ ValidateCurlExit
  \/ ValidateReturns

ValidateSpec == ValidateInit /\ [][ValidateNext]_vars

\* The failures of the summary that are of the given stages.
FailuresOf(stages) ==
  SelectSeq(validation.summary.failures, LAMBDA failure : failure.stage \in stages)

\* Every line read is counted once, and totalLines = normalized + stage 2.
LinesAccounted ==
  /\ validation.linesRead =
       validation.summary.skippedComments + validation.summary.normalized
         + Len(FailuresOf({"stage1", "stage2"}))
  /\ validation.summary.totalLines =
       validation.summary.normalized + Len(FailuresOf({"stage2"}))

\* C33: when the test run ends, every line of every source read has been
\* counted once as skipped, stage-1 failure, normalized or stage-2 failure; the
\* exit code is left at 0 exactly when failures is empty, and failures is empty
\* exactly when no source failed to download or to be read and no line failed
\* stage 1 or stage 2.
C33_PassesIffNothingFailed ==
  validation.pc = "done" =>
    /\ LinesAccounted
    /\ validation.exitCode # 1 <=> validation.summary.failures = <<>>
    /\ validation.summary.failures = <<>> <=>
         /\ \A i \in validation.attempted : feeds[i].outcome = "ok"
         /\ \A i \in 1..Len(LoadSources) : validation.readable[i]
         /\ FailuresOf({"stage1", "stage2"}) = <<>>


\* ------------------------------------------------ the run state across runs
\* The list `new` is the list `old` with records added at its end.
Extends(new, old) == Len(old) <= Len(new) /\ SubSeq(new, 1, Len(old)) = old

\* A step keeps every record of proxy_results.json, and within a run every
\* record of the lists in memory, in its list and at its place.
ListsGrow ==
  \A t \in Types :
    /\ Extends(disk'.content[t].working, disk.content[t].working)
    /\ Extends(disk'.content[t].failed, disk.content[t].failed)
    /\ (pc # "idle" /\ pc' # "idle") =>
         /\ Extends(results'[t].working, results[t].working)
         /\ Extends(results'[t].failed, results[t].failed)

\* A batch starts with none of the candidates the run state on disk records
\* for its protocol, and keeps its list to the end.
OnlyUnrecordedTested ==
  /\ (pc = "loop" /\ pc' = "batch") =>
       \A c \in Range(proxiesToTest') :
         c.normalized \notin Proxies(disk.content[TypeOrder[typeIdx]].working)
                               \cup Proxies(disk.content[TypeOrder[typeIdx]].failed)
  /\ (pc = "batch" /\ pc' = "batch") => proxiesToTest' = proxiesToTest

RunOrPoolInit == Init \/ PoolInit

RunSteps ==
  /\ ~(pc \in {"spawn", "settled"} \/ (pc = "batch" /\ typeIdx = 0))
  /\ BatchNext

PoolSteps ==
  /\ typeIdx = 0
  /\ PoolNext

RunOrPoolNext == RunSteps \/ PoolSteps

RunOrPoolSpec == RunOrPoolInit /\ [][RunOrPoolNext]_vars

\* The workers inside a testProxy call.
InFlight == {w \in DOMAIN workers : workers[w].pc # "done"}

\* The protocols are processed in this order, one batch at a time: typeIdx
\* moves to the next protocol only from a batch with nothing in flight.
BatchesInOrder ==
  /\ TypeOrder = <<"socks5", "socks4", "http", "https">>
  /\ typeIdx' # typeIdx =>
       \/ pc = "idle" /\ typeIdx' = 1
       \/ /\ typeIdx' = typeIdx + 1
          /\ active = 0
          /\ InFlight = {}

\* While a batch runs, the lists of the other protocols stay as they are.
OtherListsUnchanged ==
  (pc = "batch" /\ typeIdx > 0) =>
    \A t \in Types \ {TypeOrder[typeIdx]} :
      /\ results'[t] = results[t]
      /\ disk'.content[t] = disk.content[t]

\* C35: the batches run strictly one after another in the order socks5,
\* socks4, http, https; every probe in flight belongs to the one batch that is
\* running, so at most CONCURRENCY probes are in flight at any time of the
\* run; and a step of a batch leaves the lists of the other protocols alone.
C35_BatchesSequential ==
  /\ [](/\ active <= CONCURRENCY
        /\ Cardinality(InFlight) <= active
        /\ InFlight # {} =>
             /\ pc = "batch"
             /\ \A w \in InFlight : ProxyOf(w).type = TypeOrder[typeIdx])
  /\ [][BatchesInOrder /\ OtherListsUnchanged]_vars

\* The second batch of a run is in flight after the first one recorded a
\* result.
C35_Witness ==
  /\ pc = "batch"
  /\ typeIdx = 4
  /\ InFlight # {}
  /\ results["socks5"].working # <<>> \/ results["socks5"].failed # <<>>

RECURSIVE SumOf(_)
SumOf(histogram) ==
  IF DOMAIN histogram = {} THEN 0
  ELSE LET k == CHOOSE k \in DOMAIN histogram : TRUE
       IN histogram[k] + SumOf([j \in DOMAIN histogram \ {k} |-> histogram[j]])

\* C36: at every step of a batch, 0 <= active, finished + active is the number
\* of candidates claimed from the shared index and at most total, detected +
\* failed <= finished, and the counts of the error histogram add up to failed;
\* when the batch has completed, active = 0 and finished = total.
C36_CountersConsistent ==
  pc \in {"batch", "settled"} =>
    LET total == Len(proxiesToTest)
    IN /\ 0 <= active
       /\ finished + active = Min(index, total)
       /\ finished + active <= total
       /\ detected + failed <= finished
       /\ SumOf(errorHistogram) = failed
       /\ (pc = "settled" \/ BatchDone) => (active = 0 /\ finished = total)

\* A batch has completed with a failure in its histogram.
C36_Witness ==
  /\ BatchDone
  /\ failed > 0
  /\ detected > 0
  /\ finished = Len(proxiesToTest)

====
